---------------------------- MODULE Spec2Model ----------------------------
(***************************************************************************)
(* Model of rendezvousd, the IPv6 epoch/slot peer discovery daemon          *)
(* (images/alpine/features/rendezvous-ipv6/files/rendezvousd.py).           *)
(*                                                                         *)
(* The daemon is single-threaded: one program counter `pc` walks through   *)
(* run(), _broadcast_descriptor(), _listen_for_peers() and                 *)
(* _handle_peer_message().  The environment contributes the wall clock,    *)
(* the datagrams that arrive, the outcome of every OS call and the         *)
(* delivery of SIGINT/SIGTERM, whose Python handler (stop) runs between    *)
(* two steps of the main thread.                                           *)
(***************************************************************************)
EXTENDS Integers, Sequences, FiniteSets, TLC

(***************************************************************************)
(* Bounds of the model.                                                    *)
(***************************************************************************)
\* the wall clock runs from 0 to MaxTime (one unit = one slot)
MaxTime == 2
\* number of datagrams recvfrom() delivers in one process lifetime
MaxFrames == 3
\* max_peers is drawn from 0..MaxPeersBound
MaxPeersBound == 2
\* epoch_seconds, in clock units
EpochUnits == 2
\* slots_per_epoch
SlotsPerEpoch == 2
\* slot_duration_ms, in clock units
ListenUnits == 1

\* RENDEZVOUS_PORT
RENDEZVOUS_PORT == 51821

(***************************************************************************)
(* JSON values.  A value is a record [t, s]: t is the Python type after    *)
(* json.loads, s the text str() gives for it.                              *)
(***************************************************************************)
Str(s) == [t |-> "str", s |-> s]
Num(s) == [t |-> "num", s |-> s]
Arr(s) == [t |-> "list", s |-> s]
None == [t |-> "none", s |-> ""]

\* bool(x) as `not node_id` evaluates it
Truthy_AcceptsEmpty(x) == x.t # "none"
Truthy(x) ==
    CASE x.t = "none" -> FALSE
      [] x.t = "str" -> x.s # ""
      [] x.t = "num" -> x.s # "0"
      [] x.t = "list" -> x.s # ""

\* hash(x) succeeds: a list is unhashable, `x in set` raises TypeError
Hashable(x) == x.t # "list"

\* A descriptor as json.loads returns it: a dict with an optional node_id
\* and a payload v kept verbatim, or a value that is no dict.
Dict(id, v) == [t |-> "dict", node_id |-> id, v |-> v]
NotADict == [t |-> "list", node_id |-> None, v |-> 0]

\* descriptor.get("node_id"); AttributeError on a value that is no dict
HasGet(d) == d.t = "dict"
GetNodeId(d) == d.node_id

(***************************************************************************)
(* Bytes.  Byte strings are sequences of 0..255.                           *)
(***************************************************************************)
\* struct.pack(">I", n)
PackU32(n) ==
    << (n \div 16777216) % 256, (n \div 65536) % 256, (n \div 256) % 256, n % 256 >>

\* struct.unpack(">I", b)[0] for a 4-byte b
UnpackU32_LittleEndian(b) == b[4] * 16777216 + b[3] * 65536 + b[2] * 256 + b[1]
UnpackU32(b) == b[1] * 16777216 + b[2] * 65536 + b[3] * 256 + b[4]

\* b[i:] for 0-based i (empty when i >= len)
SliceFrom(b, i) == IF i >= Len(b) THEN << >> ELSE SubSeq(b, i + 1, Len(b))
\* b[i:j] for 0-based i <= j
Slice(b, i, j) ==
    IF i >= Len(b) \/ j <= i THEN << >>
    ELSE SubSeq(b, i + 1, IF j > Len(b) THEN Len(b) ELSE j)

\* ASCII of the texts used in descriptors
KeyNodeId == << 34, 110, 111, 100, 101, 95, 105, 100, 34 >>
Quoted(c) == << 34 >> \o c \o << 34 >>
TxtN(k) == << 110, 48 + k >>
NameN(k) == CASE k = 0 -> "n0" [] k = 1 -> "n1" [] k = 2 -> "n2" [] OTHER -> "n3"
TxtDotDotX == << 46, 46, 47, 120 >>
TxtASlashB == << 97, 47, 98 >>
TxtDotSlashN1 == << 46, 47, 110, 49 >>

\* json.dumps({"node_id": <id>, "v": <v>}) with the default separators
JsonDict(idBytes, v) ==
    << 123 >> \o KeyNodeId \o << 58, 32 >> \o idBytes
        \o << 44, 32, 34, 118, 34, 58, 32, 48 + v, 125 >>

\* The JSON texts the model knows, with the value json.loads gives for each.
JsonTable ==
    { [bytes |-> JsonDict(Quoted(TxtN(k)), v), value |-> Dict(Str(NameN(k)), v)] :
          k \in 0..3, v \in 1..2 }
    \cup
    { [bytes |-> JsonDict(Quoted(TxtDotDotX), 1), value |-> Dict(Str("../x"), 1)],
      [bytes |-> JsonDict(Quoted(TxtASlashB), 1), value |-> Dict(Str("a/b"), 1)],
      [bytes |-> JsonDict(Quoted(TxtDotSlashN1), 1), value |-> Dict(Str("./n1"), 1)],
      [bytes |-> JsonDict(Quoted(TxtDotSlashN1), 2), value |-> Dict(Str("./n1"), 2)],
      [bytes |-> JsonDict(<< 55 >>, 1), value |-> Dict(Num("7"), 1)],
      [bytes |-> JsonDict(<< 91, 34, 97, 34, 93 >>, 1), value |-> Dict(Arr("a"), 1)],
      [bytes |-> JsonDict(Quoted(<< >>), 1), value |-> Dict(Str(""), 1)],
      [bytes |-> << 123, 125 >>, value |-> Dict(None, 0)],
      [bytes |-> << 91, 93 >>, value |-> NotADict] }


\* json.dumps(d): the text of a descriptor of the table
JsonDumps(d) == (CHOOSE r \in JsonTable : r.value = d).bytes

\* json.dump(d, f, indent=2) of a dict of scalars: every member on a line of its
\* own, indented by two blanks, "," without a blank after it, "{}" for no member
RECURSIVE Indent2(_, _, _)
Indent2(b, i, inStr) ==
    IF i > Len(b) THEN << >>
    ELSE IF b[i] = 34 THEN << 34 >> \o Indent2(b, i + 1, ~inStr)
    ELSE IF inStr THEN << b[i] >> \o Indent2(b, i + 1, inStr)
    ELSE IF b[i] = 123 THEN << 123, 10, 32, 32 >> \o Indent2(b, i + 1, inStr)
    ELSE IF b[i] = 44 THEN << 44, 10, 32, 32 >> \o Indent2(b, i + 2, inStr)
    ELSE IF b[i] = 125 THEN << 10, 125 >> \o Indent2(b, i + 1, inStr)
    ELSE << b[i] >> \o Indent2(b, i + 1, inStr)

\* the indented text of every value of the table
JsonIndented ==
    { [bytes |-> IF r.bytes = << 123, 125 >> THEN r.bytes ELSE Indent2(r.bytes, 1, FALSE),
       value |-> r.value] : r \in JsonTable }
JsonDumpIndent_NoPayload(d) == (CHOOSE r \in JsonIndented : r.value = Dict(d.node_id, 1)).bytes
JsonDumpIndent(d) == (CHOOSE r \in JsonIndented : r.value = d).bytes

\* The JSON scanner skips blanks and newlines between tokens, never inside a
\* string (the texts of the table have no escaped quote).
RECURSIVE SkipWs(_, _, _)
SkipWs(b, i, inStr) ==
    IF i > Len(b) THEN << >>
    ELSE IF b[i] = 34 THEN << 34 >> \o SkipWs(b, i + 1, ~inStr)
    ELSE IF ~inStr /\ b[i] \in {32, 10} THEN SkipWs(b, i + 1, inStr)
    ELSE << b[i] >> \o SkipWs(b, i + 1, inStr)

\* the tokens of every text of the table
JsonTokens == { [bytes |-> SkipWs(r.bytes, 1, FALSE), value |-> r.value] : r \in JsonTable }

\* the texts json.dumps and json.dump write
JsonTexts == JsonTable \cup JsonIndented

\* bytes.decode() followed by json.loads(): the value, or the exception raised.
\* A byte >= 128 never starts a valid UTF-8 text of the table.  A text as
\* json.dumps or json.dump writes it is found as it is, any other text by its
\* tokens.
JsonLoads(b) ==
    IF \E i \in 1..Len(b) : b[i] >= 128 THEN [ok |-> FALSE, err |-> "UnicodeDecodeError", value |-> NotADict]
    ELSE IF \E r \in JsonTexts : r.bytes = b
         THEN [ok |-> TRUE, err |-> "", value |-> (CHOOSE r \in JsonTexts : r.bytes = b).value]
         ELSE IF \E r \in JsonTokens : r.bytes = SkipWs(b, 1, FALSE)
              THEN [ok |-> TRUE, err |-> "",
                    value |-> (CHOOSE r \in JsonTokens : r.bytes = SkipWs(b, 1, FALSE)).value]
              ELSE [ok |-> FALSE, err |-> "JSONDecodeError", value |-> NotADict]

(***************************************************************************)
(* Wire format: [4 bytes sig len][signature][descriptor]                   *)
(***************************************************************************)
\* message = struct.pack(">I", len(signature)) + signature + descriptor_json
Encode(signature, descriptor_json) ==
    PackU32(Len(signature)) \o signature \o descriptor_json

\* rendezvous-client.py line 125, the same statement
ClientEncode(signature, descriptor_json) ==
    PackU32(Len(signature)) \o signature \o descriptor_json

Sig3 == << 0, 1, 2 >>
Sig1 == << 9 >>
NoSig == << >>

\* The datagrams a sender can put on the rendezvous endpoint.
WellFormed ==
    { Encode(Sig3, JsonDumps(Dict(Str("n1"), 1))),
      Encode(NoSig, JsonDumps(Dict(Str("n1"), 2))),
      Encode(NoSig, JsonDumps(Dict(Str("n2"), 1))),
      Encode(Sig1, JsonDumps(Dict(Str("n3"), 1))),
      Encode(Sig3, JsonDumps(Dict(Str("n0"), 1))),
      Encode(NoSig, JsonDumps(Dict(Str("../x"), 1))),
      Encode(NoSig, JsonDumps(Dict(Str("a/b"), 1))),
      Encode(NoSig, JsonDumps(Dict(Num("7"), 1))),
      Encode(NoSig, JsonDumps(Dict(Arr("a"), 1))) }
Malformed ==
    { << 0, 0, 0 >>,
      << >>,
      << 0, 0, 0, 5, 1 >>,
      << 0, 0, 1, 0 >> \o JsonDumps(Dict(Str("n2"), 1)),
      << 0, 0, 0, 0, 255 >>,
      << 0, 0, 0, 0, 120 >>,
      << 0, 0, 0, 0 >>,
      << 0, 0, 0, 1, 9 >>,
      Encode(NoSig, << 91, 93 >>),
      Encode(Sig1, << 123, 125 >>),
      Encode(NoSig, JsonDumps(Dict(Str(""), 1))) }
Datagrams == WellFormed \cup Malformed

\* two peers whose node_id give the same file name: peers_dir / "./n1.json" is
\* peers_dir / "n1.json"
SameFile ==
    { Encode(Sig3, JsonDumps(Dict(Str("n1"), 1))),
      Encode(NoSig, JsonDumps(Dict(Str("./n1"), 2))) }

\* what the socket can receive in a scenario
Received(peers) == IF peers = "same_file" THEN SameFile ELSE Datagrams

(***************************************************************************)
(* Parsing of a received message, _handle_peer_message lines 259-268       *)
(***************************************************************************)
TooShort(d) == Len(d) < 4
SigLen(d) == UnpackU32(SubSeq(d, 1, 4))
Truncated(d) == Len(d) < 4 + SigLen(d)
Signature(d) == Slice(d, 4, 4 + SigLen(d))
DescriptorJson(d) == SliceFrom(d, 4 + SigLen(d))
\* lines 259-270 as a whole: what the handler makes of message d
ParseMessage(d) ==
    IF TooShort(d) THEN [dropped |-> "short", signature |-> << >>, descriptor_json |-> << >>]
    ELSE IF Truncated(d) THEN [dropped |-> "truncated", signature |-> << >>, descriptor_json |-> << >>]
    ELSE [dropped |-> "", signature |-> Signature(d), descriptor_json |-> DescriptorJson(d)]

(***************************************************************************)
(* Clock/slot oracle and endpoint derivation                               *)
(***************************************************************************)
epoch_seconds == EpochUnits
slots_per_epoch == SlotsPerEpoch
slot_duration_ms == ListenUnits

\* _get_epoch_slot: epoch = int(now // epoch_seconds),
\* slot = int((now % epoch_seconds) / (epoch_seconds / slots_per_epoch))
GetEpochSlot(t) ==
    << t \div epoch_seconds, ((t % epoch_seconds) * slots_per_epoch) \div epoch_seconds >>

(***************************************************************************)
(* The oracle as Python computes it.  time.time() is a float and `/` is     *)
(* float division, rounded to the nearest float (ties to even).  A float   *)
(* here has FloatBits significant bits instead of 53; a number is a         *)
(* fraction << numerator, denominator >>.                                   *)
(***************************************************************************)
FloatBits == 5
\* a float is 0 or m * 2^e with 2^(FloatBits-1) <= m < 2^FloatBits; the exponents used
MinExponent == 0 - (FloatBits + 3)
MaxExponent == 1

Pow2(k) == 2 ^ k

\* the float nearest to the fraction q >= 0
RoundFloat(q) ==
    IF q[1] = 0 THEN << 0, 1 >>
    ELSE LET num(k) == IF k < 0 THEN q[1] * Pow2(-k) ELSE q[1]
             den(k) == IF k < 0 THEN q[2] ELSE q[2] * Pow2(k)
             e == CHOOSE k \in (MinExponent - 4)..(MaxExponent + 4) :
                      /\ Pow2(FloatBits - 1) * den(k) <= num(k)
                      /\ num(k) < Pow2(FloatBits) * den(k)
             m0 == num(e) \div den(e)
             r == num(e) % den(e)
             m == IF 2 * r > den(e) \/ (2 * r = den(e) /\ m0 % 2 = 1) THEN m0 + 1 ELSE m0
         IN  IF e < 0 THEN << m, Pow2(-e) >> ELSE << m * Pow2(e), 1 >>

\* x / y of two floats, and of two ints
FloatDiv(x, y) == RoundFloat(<< x[1] * y[2], x[2] * y[1] >>)
\* x // n and x % n of a float x >= 0 and an int n > 0: exact
FloatFloorDiv(x, n) == x[1] \div (x[2] * n)
FloatMod(x, n) == << x[1] % (x[2] * n), x[2] >>
\* int(x) of a float x >= 0
FloatToInt(x) == x[1] \div x[2]
FloatLess(x, y) == x[1] * y[2] < y[1] * x[2]
\* m * 2^e as a fraction
FloatOf(m, e) == IF e < 0 THEN << m, Pow2(-e) >> ELSE << m * Pow2(e), 1 >>
\* the next float after m * 2^e
NextFloat(m, e) == IF m + 1 < Pow2(FloatBits) THEN FloatOf(m + 1, e) ELSE FloatOf(Pow2(FloatBits - 1), e + 1)

\* _get_epoch_slot (and get_epoch_slot of the client, the same statements) for
\* now = t, epoch_seconds = es and slots_per_epoch = spe
FloatEpochSlot(t, es, spe) ==
    LET epoch_ == FloatFloorDiv(t, es)
        slot_duration == RoundFloat(<< es, spe >>)
        slot_ == FloatToInt(FloatDiv(FloatMod(t, es), slot_duration))
    IN  << epoch_, slot_ >>

\* hmac.new(secret, struct.pack(">QI", epoch, slot), hashlib.sha256).digest():
\* 32 bytes, a fixed pseudo-random function of the key and the message
Digest(secret, epoch, slot) ==
    [i \in 1..32 |-> (secret * 131 + epoch * 89 + slot * 59 + i * 37 + (epoch + 1) * (slot + 3) * i) % 256]

\* its first 8 bytes, mac[:8]
Mac8(secret, epoch, slot) == SubSeq(Digest(secret, epoch, slot), 1, 8)

\* b & 0xfd
ClearBit1_Bit0(b) == b - (b % 2)
ClearBit1(b) == b - (IF (b \div 2) % 2 = 1 THEN 2 ELSE 0)

mesh_secret == 7

\* lines 115-122 of _derive_rendezvous_address: the 16 bytes of the address made
\* of a digest
LinkLocal(mac) ==
    LET mac8 == SubSeq(mac, 1, 8)
        iid == << ClearBit1(mac8[1]) >> \o SubSeq(mac8, 2, 8)
    IN  << 254, 128, 0, 0, 0, 0, 0, 0 >> \o iid

\* _derive_rendezvous_address of a daemon whose self.mesh_secret is `secret`.  The
\* daemon is modelled with the address as its 16 bytes; the text the method
\* returns is IPv6Text of them, which IPv6Packed turns back into the bytes.
DeriveRendezvousAddressOf(secret, epoch, slot) == LinkLocal(Digest(secret, epoch, slot))

\* _derive_rendezvous_address
DeriveRendezvousAddress(epoch, slot) == DeriveRendezvousAddressOf(mesh_secret, epoch, slot)

\* _derive_port
DerivePort(slot) == RENDEZVOUS_PORT + slot

\* str(ipaddress.IPv6Address(b)) for 16 bytes b: the eight 16-bit groups, each
\* printed in hexadecimal without leading zeros (a text that stands for its
\* number, and is written as the number here), the leftmost longest run of two or
\* more zero groups replaced by "::" (written DoubleColon)
DoubleColon == -1
Groups(b) == [i \in 1..8 |-> b[2 * i - 1] * 256 + b[2 * i]]
ZeroRun(g, i) ==
    CHOOSE n \in 0..(9 - i) : /\ \A j \in i..(i + n - 1) : g[j] = 0
                              /\ (i + n > 8 \/ g[i + n] # 0)
BestRun(g) ==
    CHOOSE i \in 1..8 : \A j \in 1..8 :
        \/ ZeroRun(g, i) > ZeroRun(g, j)
        \/ (ZeroRun(g, i) = ZeroRun(g, j) /\ i <= j)
IPv6Text(b) ==
    LET g == Groups(b)
        i == BestRun(g)
        n == ZeroRun(g, i)
    IN  IF n > 1 THEN SubSeq(g, 1, i - 1) \o << DoubleColon >> \o SubSeq(g, i + n, 8)
        ELSE g

\* ipaddress.IPv6Address(text).packed: "::" stands for the groups that are missing
IPv6Packed(text) ==
    LET k == IF \E i \in 1..Len(text) : text[i] = DoubleColon
             THEN CHOOSE i \in 1..Len(text) : text[i] = DoubleColon
             ELSE 0
        g == IF k = 0 THEN text
             ELSE SubSeq(text, 1, k - 1) \o [j \in 1..(9 - Len(text)) |-> 0]
                      \o SubSeq(text, k + 1, Len(text))
    IN  [i \in 1..16 |-> IF i % 2 = 1 THEN g[(i + 1) \div 2] \div 256 ELSE g[i \div 2] % 256]

\* rendezvous-client.py: RENDEZVOUS_PORT and derive_rendezvous_address
CLIENT_RENDEZVOUS_PORT == 51821
derive_rendezvous_address_KeepsBit(secret, epoch, slot) ==
    LET mac == Digest(secret, epoch, slot)
        iid == SubSeq(mac, 1, 8)
        addr_bytes == << 254, 128, 0, 0, 0, 0, 0, 0 >> \o iid
    IN  IPv6Text(addr_bytes)
derive_rendezvous_address(secret, epoch, slot) ==
    LET mac == Digest(secret, epoch, slot)
        iid == SubSeq(mac, 1, 8)
        iid2 == << ClearBit1(iid[1]) >> \o SubSeq(iid, 2, Len(iid))
        addr_bytes == << 254, 128, 0, 0, 0, 0, 0, 0 >> \o iid2
    IN  IPv6Text(addr_bytes)

(***************************************************************************)
(* The peers directory.  peers_dir / f"{node_id}.json" is resolved by the  *)
(* OS when the file is opened: the directory the file lands in and its     *)
(* base name.                                                              *)
(***************************************************************************)
PathOf(id) ==
    CASE id.s = "../x" -> [dir |-> "parent", base |-> "x"]
      [] id.s = "a/b" -> [dir |-> "peers/a", base |-> "b"]
      [] id.s = "./n1" -> [dir |-> "peers", base |-> "n1"]
      [] OTHER -> [dir |-> "peers", base |-> id.s]

\* peers_dir exists (mkdir in __init__) and so does its parent; nothing
\* creates sub-directories of peers_dir
DirExists(dir) == dir \in {"peers", "parent"}

\* every node_id that can get past the checks of _handle_peer_message
PeerIds ==
    { r.value.node_id : r \in { q \in JsonTable : HasGet(q.value) /\ Truthy(q.value.node_id)
                                                   /\ Hashable(q.value.node_id) } }
Paths == { PathOf(id) : id \in PeerIds }

\* The state of a path: no file; a file that open(path, "w") has created or
\* truncated and nothing was written to; a file with its content.
Absent == [st |-> "absent", c |-> << >>]
Empty == [st |-> "empty", c |-> << >>]
Written(c) == [st |-> "written", c |-> c]

EmptyDescriptor == Dict(None, 0)
LocalDescriptor == Dict(Str("n0"), 1)
NoAddr == << >>

\* config["peers_dir"] and str(peers_dir / f"{node_id}.json")
peers_dir == "/var/lib/infrasim/peer-descriptors"
PathText(id) == peers_dir \o "/" \o id.s \o ".json"

\* config["peer_callback"]: a text is the sequence of its maximal runs of
\* whitespace and of other characters; "" disables the callback
NoCallback == << >>
DefaultCallback == << "/usr/local/bin/apply-peers.sh", " ", "add" >>
PaddedCallback == << " ", "hook", " \t", "-a", " " >>
IsSpace(run) == run \in {" ", " \t"}

\* str.split(): the runs that are not whitespace
Split(text) == SelectSeq(text, LAMBDA run : ~IsSpace(run))

VARIABLES
    \* configuration and the descriptor loaded in __init__
    max_peers, peer_callback, node_descriptor,
    \* what the environment does in this run: datagrams delivered, clock range
    scenario,
    \* attributes of RendezvousDaemon
    known_peers, running, current_socket,
    \* locals of run(), _listen_for_peers() and _handle_peer_message()
    pc, last_epoch, last_slot, epoch, slot, end_time, sock, data,
    \* environment: wall clock, addresses on the interface, files
    now, iface, files, sigfiles,
    \* history: address added and not yet handed to _remove_address
    pending,
    \* history per node_id: completed descriptor writes, callback runs, evictions,
    \* sightings abandoned at the signature file
    descWrites, callbacks, evictions, sigFails,
    \* history: datagrams received; an OS call, a subprocess or a message failed;
    \* an exception was raised on the socket that stop() closed; a loop condition
    \* has read running = False
    nframes, failed, interrupted, observed,
    \* the subprocess of the callback: its argv and how it ended
    argv, cb_result,
    \* history: the (epoch, slot) of every descriptor put on the wire by sendto
    sent,
    \* two daemons on one link: their common clock and the state of each
    clock, daemons,
    \* one run of rendezvous-client.py; one call of a function that has no state
    client, pure,
    \* the start of rendezvousd.py: main(), load_config, the first pass of run()
    boot

vars ==
    << max_peers, peer_callback, node_descriptor, scenario, known_peers, running,
       current_socket, pc, last_epoch, last_slot, epoch, slot, end_time, sock, data,
       now, iface, files, sigfiles, pending, descWrites, callbacks, evictions, sigFails,
       nframes, failed, interrupted, observed, argv, cb_result, sent, clock, daemons,
       client, pure, boot >>

\* the variables of the daemon that runs alone
daemonVars ==
    << max_peers, peer_callback, node_descriptor, scenario, known_peers, running,
       current_socket, pc, last_epoch, last_slot, epoch, slot, end_time, sock, data,
       now, iface, files, sigfiles, pending, descWrites, callbacks, evictions, sigFails,
       nframes, failed, interrupted, observed, argv, cb_result, sent >>
pairVars == << clock, daemons >>
toolVars == << client, pure, boot >>

cfgVars == << max_peers, peer_callback, node_descriptor, scenario >>
peerVars == << known_peers, files, sigfiles, descWrites, callbacks, evictions, sigFails >>
slotVars == << last_epoch, last_slot, epoch, slot >>
sockVars == << sock, current_socket >>
cbVars == << argv, cb_result >>

\* The configurations explored: every max_peers with a callback and a local
\* descriptor, and max_peers = 1 without a callback or without a descriptor.
Configs ==
    { [max_peers |-> m, peer_callback |-> DefaultCallback, node_descriptor |-> LocalDescriptor] :
          m \in 0..MaxPeersBound }
    \cup
    { [max_peers |-> 1, peer_callback |-> NoCallback, node_descriptor |-> LocalDescriptor],
      [max_peers |-> 1, peer_callback |-> PaddedCallback, node_descriptor |-> EmptyDescriptor] }

\* The runs explored: up to MaxFrames datagrams inside one slot; one datagram
\* while the clock runs through the slots up to MaxTime; no datagram while the clock
\* runs and sendto works or raises.
Scenarios ==
    { [frames |-> MaxFrames, horizon |-> 0, sendto |-> {"sent"}, peers |-> "any"],
      [frames |-> 1, horizon |-> MaxTime, sendto |-> {"sent"}, peers |-> "any"],
      [frames |-> 0, horizon |-> MaxTime, sendto |-> {"sent", "raised"}, peers |-> "any"],
      [frames |-> MaxFrames, horizon |-> 0, sendto |-> {"sent"}, peers |-> "same_file"] }

\* Two daemons A and B with node_ids n1 and n2 and the default max_peers
Nodes == {"A", "B"}
NodeId(p) == IF p = "A" THEN Str("n1") ELSE Str("n2")
Other(p) == IF p = "A" THEN "B" ELSE "A"
default_max_peers == 64
NoSlot == << -1, -1 >>

\* a daemon after __init__, at the start of run()
PairStart ==
    [pc |-> "tick", last |-> NoSlot, cur |-> NoSlot, end_time |-> 0, bound |-> FALSE,
     inbox |-> << >>, known_peers |-> {}, files |-> {}, calls |-> {}, entered |-> {},
     dropped |-> FALSE]

\* rendezvous-client.py before main(): the command line, the configuration file,
\* the descriptor file, the clock, whether the rendezvous address is already on the
\* interface (a daemon on the same host is in its listen window); nothing done yet
ClientStart(command, secret, file, t, bound) ==
    [pc |-> "main", command |-> command, mesh_secret |-> secret, descriptor_file |-> file,
     now |-> t, iface |-> bound, epoch |-> -1, slot |-> -1, addr |-> << >>, port |-> 0,
     adds |-> << >>, removes |-> << >>, sends |-> << >>, peers |-> << >>, received |-> 0,
     raised |-> "", returned |-> "", printed |-> << >>, exit |-> -1]

\* rendezvousd.py before main(): the values of the configuration file (a key
\* that is not in the file is "missing") and the clock
BootStart(secret, es, spe, ms, t) ==
    [pc |-> "load", file |-> [mesh_secret |-> secret, epoch_seconds |-> es,
                             slots_per_epoch |-> spe, slot_duration_ms |-> ms],
     now |-> t, config |-> << >>, constructed |-> FALSE, entered |-> << >>,
     raised |-> "", exit |-> -1]
BootOff == [BootStart("missing", "missing", "missing", "missing", 0) EXCEPT !.pc = "off"]

\* no client runs and no function is called
ClientOff == [ClientStart("status", "", "missing", 0, {}) EXCEPT !.pc = "off"]
NoCall == [op |-> "none", in |-> << >>, out |-> << >>, done |-> FALSE]

\* __init__ with known_peers read back from the descriptor files in peers_dir
DaemonStart_LoadsPeersDir ==
    /\ \E c \in Configs :
          /\ max_peers = c.max_peers
          /\ peer_callback = c.peer_callback
          /\ node_descriptor = c.node_descriptor
    /\ scenario \in Scenarios
    /\ known_peers = { id \in PeerIds : files[PathOf(id)].st = "written" }
    /\ running = TRUE
    /\ current_socket = "None"
    /\ pc = "loop"
    /\ last_epoch = -1
    /\ last_slot = -1
    /\ epoch = -1
    /\ slot = -1
    /\ end_time = 0
    /\ sock = "none"
    /\ data = << >>
    /\ now = 0
    /\ iface = {}
    /\ pending = NoAddr
    /\ descWrites = [id \in PeerIds |-> 0]
    /\ callbacks = [id \in PeerIds |-> 0]
    /\ evictions = [id \in PeerIds |-> 0]
    /\ sigFails = [id \in PeerIds |-> 0]
    /\ nframes = 0
    /\ failed = FALSE
    /\ interrupted = FALSE
    /\ observed = FALSE
    /\ argv = << >>
    /\ cb_result = "none"
    /\ sent = << >>
    /\ clock = 0
    /\ daemons = [p \in Nodes |-> PairStart]

\* RendezvousDaemon.__init__ followed by the start of run(), whatever peers_dir
\* holds: known_peers starts empty and no file is read
DaemonStart ==
    /\ \E c \in Configs :
          /\ max_peers = c.max_peers
          /\ peer_callback = c.peer_callback
          /\ node_descriptor = c.node_descriptor
    /\ scenario \in Scenarios
    /\ known_peers = {}
    /\ running = TRUE
    /\ current_socket = "None"
    /\ pc = "loop"
    /\ last_epoch = -1
    /\ last_slot = -1
    /\ epoch = -1
    /\ slot = -1
    /\ end_time = 0
    /\ sock = "none"
    /\ data = << >>
    /\ now = 0
    /\ iface = {}
    /\ pending = NoAddr
    /\ descWrites = [id \in PeerIds |-> 0]
    /\ callbacks = [id \in PeerIds |-> 0]
    /\ evictions = [id \in PeerIds |-> 0]
    /\ sigFails = [id \in PeerIds |-> 0]
    /\ nframes = 0
    /\ failed = FALSE
    /\ interrupted = FALSE
    /\ observed = FALSE
    /\ argv = << >>
    /\ cb_result = "none"
    /\ sent = << >>
    /\ clock = 0
    /\ daemons = [p \in Nodes |-> PairStart]

\* the first start of the daemon on a host: peers_dir is created empty
DaemonInit ==
    /\ files = [p \in Paths |-> Absent]
    /\ sigfiles = [p \in Paths |-> Absent]
    /\ DaemonStart

\* the daemon alone
Init ==
    /\ DaemonInit
    /\ client = ClientOff
    /\ pure = NoCall
    /\ boot = BootOff

addr == DeriveRendezvousAddress(epoch, slot)

(***************************************************************************)
(* run(), lines 322-350                                                    *)
(***************************************************************************)
\* `while self.running:` of run(); leaving the loop returns to main(), which exits
RunLoop ==
    /\ pc = "loop"
    /\ IF running
       THEN pc' = "tick" /\ UNCHANGED observed
       ELSE pc' = "exited" /\ observed' = TRUE
    /\ UNCHANGED << cfgVars, pairVars, toolVars, cbVars, sent, peerVars, slotVars, sockVars, running, end_time, data,
                    now, iface, pending, nframes, failed, interrupted >>

\* run() without the test of line 333
RunTick_AlwaysEnters ==
    /\ pc = "tick"
    /\ epoch' = GetEpochSlot(now)[1]
    /\ slot' = GetEpochSlot(now)[2]
    /\ pc' = "broadcast"
    /\ UNCHANGED << cfgVars, pairVars, toolVars, cbVars, sent, peerVars, sockVars, last_epoch, last_slot, running, end_time,
                    data, now, iface, pending, nframes, failed, interrupted, observed >>

\* epoch, slot = self._get_epoch_slot(); the test for a new slot and the derivation
RunTick ==
    /\ pc = "tick"
    /\ LET es == GetEpochSlot(now) IN
        IF es[1] # last_epoch \/ es[2] # last_slot
        THEN /\ epoch' = es[1]
             /\ slot' = es[2]
             /\ pc' = "broadcast"
        ELSE /\ UNCHANGED << epoch, slot >>
             /\ pc' = "sleep"
    /\ UNCHANGED << cfgVars, pairVars, toolVars, cbVars, sent, peerVars, sockVars, last_epoch, last_slot, running, end_time,
                    data, now, iface, pending, nframes, failed, interrupted, observed >>

\* last_epoch = epoch; last_slot = slot, after _listen_for_peers has returned: its
\* local `sock` goes out of scope, the object lives on if current_socket refers to it
RunRecord ==
    /\ pc = "post"
    /\ last_epoch' = epoch
    /\ last_slot' = slot
    /\ sock' = "none"
    /\ current_socket' =
          IF current_socket = "sock"
          THEN (IF sock = "open" THEN "old_open" ELSE "old_closed")
          ELSE current_socket
    /\ pc' = "sleep"
    /\ UNCHANGED << cfgVars, pairVars, toolVars, cbVars, sent, peerVars, epoch, slot, running, end_time, data,
                    now, iface, pending, nframes, failed, interrupted, observed >>

\* time.sleep(0.01)
RunSleep ==
    /\ pc = "sleep"
    /\ pc' = "loop"
    /\ UNCHANGED << cfgVars, pairVars, toolVars, cbVars, sent, peerVars, slotVars, sockVars, running, end_time, data,
                    now, iface, pending, nframes, failed, interrupted, observed >>

(***************************************************************************)
(* _broadcast_descriptor(), lines 181-215                                  *)
(***************************************************************************)
\* _broadcast_descriptor without the check of lines 183-184
BroadcastDescriptor_AlwaysSends ==
    /\ pc = "broadcast"
    /\ \/ /\ "sent" \in scenario.sendto
          /\ sent' = Append(sent, << epoch, slot >>)
          /\ UNCHANGED failed
       \/ /\ "raised" \in scenario.sendto
          /\ failed' = TRUE
          /\ UNCHANGED sent
    /\ pc' = "add"
    /\ UNCHANGED << cfgVars, pairVars, toolVars, cbVars, peerVars, slotVars, sockVars, running, end_time, data,
                    now, iface, pending, nframes, interrupted, observed >>

\* nothing is sent without a descriptor; an exception while sending is logged
BroadcastDescriptor ==
    /\ pc = "broadcast"
    /\ IF node_descriptor = EmptyDescriptor
       THEN UNCHANGED << failed, sent >>
       ELSE \/ /\ "sent" \in scenario.sendto
               /\ sent' = Append(sent, << epoch, slot >>)
               /\ UNCHANGED failed
            \/ /\ "raised" \in scenario.sendto
               /\ failed' = TRUE
               /\ UNCHANGED sent
    /\ pc' = "add"
    /\ UNCHANGED << cfgVars, pairVars, toolVars, cbVars, peerVars, slotVars, sockVars, running, end_time, data,
                    now, iface, pending, nframes, interrupted, observed >>

(***************************************************************************)
(* _listen_for_peers(), lines 217-254                                      *)
(***************************************************************************)
\* the `except Exception` of _listen_for_peers: log, return to run()
ListenExcept_Propagates == pc' = "crashed"
ListenExcept == pc' = "post"

\* _add_address without the `return` of line 222, and without the address
ListenAdd_IgnoresFailure ==
    /\ pc = "add"
    /\ \/ /\ iface' = iface \cup {addr}
          /\ pending' = addr
          /\ UNCHANGED failed
       \/ /\ failed' = TRUE
          /\ UNCHANGED << iface, pending >>
    /\ pc' = "socket"
    /\ UNCHANGED << cfgVars, pairVars, toolVars, cbVars, sent, peerVars, slotVars, sockVars, running, end_time, data,
                    now, nframes, interrupted, observed >>
ListenAdd_NoAddress ==
    /\ pc = "add"
    /\ \/ /\ pending' = addr
          /\ pc' = "socket"
          /\ UNCHANGED << failed, iface >>
       \/ /\ failed' = TRUE
          /\ pc' = "post"
          /\ UNCHANGED << iface, pending >>
    /\ UNCHANGED << cfgVars, pairVars, toolVars, cbVars, sent, peerVars, slotVars, sockVars, running, end_time, data,
                    now, nframes, interrupted, observed >>

\* _add_address: True when ip reports success or "File exists"; False returns
ListenAdd ==
    /\ pc = "add"
    /\ \/ /\ iface' = iface \cup {addr}
          /\ pending' = addr
          /\ pc' = "socket"
          /\ UNCHANGED failed
       \/ /\ failed' = TRUE
          /\ pc' = "post"
          /\ UNCHANGED << iface, pending >>
    /\ UNCHANGED << cfgVars, pairVars, toolVars, cbVars, sent, peerVars, slotVars, sockVars, running, end_time, data,
                    now, nframes, interrupted, observed >>

\* socket.socket(), setsockopt, setblocking
ListenSocket ==
    /\ pc = "socket"
    /\ \/ /\ sock' = "open"
          /\ pc' = "bind"
          /\ UNCHANGED failed
       \/ /\ failed' = TRUE
          /\ ListenExcept
          /\ UNCHANGED sock
    /\ UNCHANGED << cfgVars, pairVars, toolVars, cbVars, sent, peerVars, slotVars, current_socket, running, end_time, data,
                    now, iface, pending, nframes, interrupted, observed >>

\* _get_interface_index, sock.bind, self.current_socket = sock, end_time
ListenBind ==
    /\ pc = "bind"
    /\ \/ /\ current_socket' = "sock"
          /\ end_time' = now + slot_duration_ms
          /\ pc' = "lcheck"
          /\ UNCHANGED failed
       \/ /\ failed' = TRUE
          /\ ListenExcept
          /\ UNCHANGED << current_socket, end_time >>
    /\ UNCHANGED << cfgVars, pairVars, toolVars, cbVars, sent, peerVars, slotVars, sock, running, data,
                    now, iface, pending, nframes, interrupted, observed >>

\* `while self.running and time.time() < end_time:`; the message of the previous
\* iteration is dead
ListenCheck_IgnoresStop ==
    /\ pc = "lcheck"
    /\ pc' = IF now < end_time THEN "select" ELSE "close"
    /\ observed' = (observed \/ ~running)
    /\ data' = << >>
    /\ UNCHANGED << cfgVars, pairVars, toolVars, cbVars, sent, peerVars, slotVars, sockVars, running, end_time,
                    now, iface, pending, nframes, failed, interrupted >>
ListenCheck ==
    /\ pc = "lcheck"
    /\ pc' = IF running /\ now < end_time THEN "select" ELSE "close"
    /\ observed' = (observed \/ ~running)
    /\ data' = << >>
    /\ UNCHANGED << cfgVars, pairVars, toolVars, cbVars, sent, peerVars, slotVars, sockVars, running, end_time,
                    now, iface, pending, nframes, failed, interrupted >>

\* select.select([sock], [], [], 0.1): on a socket that stop() has closed it raises
\* (ValueError for fileno() = -1, or OSError EBADF when retried after the signal)
ListenSelect ==
    /\ pc = "select"
    /\ IF sock = "closed"
       THEN interrupted' = TRUE /\ ListenExcept
       ELSE /\ \/ nframes < scenario.frames /\ pc' = "recv"
               \/ pc' = "lcheck"
            /\ UNCHANGED interrupted
    /\ UNCHANGED << cfgVars, pairVars, toolVars, cbVars, sent, peerVars, slotVars, sockVars, running, end_time, data,
                    now, iface, pending, nframes, failed, observed >>

\* sock.recvfrom(65535); an exception is caught by the inner `except Exception`
ListenRecv ==
    /\ pc = "recv"
    /\ IF sock = "closed"
       THEN /\ interrupted' = TRUE
            /\ pc' = "lcheck"
            /\ UNCHANGED << data, nframes, failed >>
       ELSE /\ \/ \E d \in Received(scenario.peers) :
                    /\ data' = d
                    /\ nframes' = nframes + 1
                    /\ pc' = "handle"
                    /\ UNCHANGED failed
               \/ /\ failed' = TRUE
                  /\ pc' = "lcheck"
                  /\ UNCHANGED << data, nframes >>
            /\ UNCHANGED interrupted
    /\ UNCHANGED << cfgVars, pairVars, toolVars, cbVars, sent, peerVars, slotVars, sockVars, running, end_time,
                    now, iface, pending, observed >>

\* the end of the listen loop without lines 247-248: the socket stays open and
\* current_socket keeps referring to it
ListenClose_KeepsSocket ==
    /\ pc = "close"
    /\ pc' = "remove"
    /\ UNCHANGED << cfgVars, pairVars, toolVars, cbVars, sent, peerVars, slotVars, sockVars, running, end_time, data,
                    now, iface, pending, nframes, failed, interrupted, observed >>

\* sock.close(); self.current_socket = None
ListenClose ==
    /\ pc = "close"
    /\ sock' = "closed"
    /\ current_socket' = "None"
    /\ pc' = "remove"
    /\ UNCHANGED << cfgVars, pairVars, toolVars, cbVars, sent, peerVars, slotVars, running, end_time, data,
                    now, iface, pending, nframes, failed, interrupted, observed >>

\* _remove_address(addr): the address is gone when ip reports success
ListenRemove ==
    /\ pc = "remove"
    /\ \/ iface' = iface \ {addr} /\ UNCHANGED failed
       \/ failed' = TRUE /\ UNCHANGED iface
    /\ pending' = NoAddr
    /\ pc' = "post"
    /\ UNCHANGED << cfgVars, pairVars, toolVars, cbVars, sent, peerVars, slotVars, sockVars, running, end_time, data,
                    now, nframes, interrupted, observed >>

(***************************************************************************)
(* _handle_peer_message(), lines 256-320                                   *)
(***************************************************************************)
DescriptorOf(d) == JsonLoads(DescriptorJson(d)).value
NodeIdOf(d) == GetNodeId(DescriptorOf(d))

\* Lines 259-283 without one of the checks
Classify_NoOwnCheck(d, own, known) ==
    IF TooShort(d) THEN "short"
    ELSE IF Truncated(d) THEN "truncated"
    ELSE IF ~JsonLoads(DescriptorJson(d)).ok THEN "decode_error"
    ELSE IF ~HasGet(DescriptorOf(d)) THEN "not_dict"
    ELSE IF ~Truthy(NodeIdOf(d)) THEN "no_node_id"
    ELSE IF ~Hashable(NodeIdOf(d)) THEN "unhashable"
    ELSE IF NodeIdOf(d) \in known THEN "known"
    ELSE "new"
Classify_NoKnownCheck(d, own, known) ==
    IF TooShort(d) THEN "short"
    ELSE IF Truncated(d) THEN "truncated"
    ELSE IF ~JsonLoads(DescriptorJson(d)).ok THEN "decode_error"
    ELSE IF ~HasGet(DescriptorOf(d)) THEN "not_dict"
    ELSE IF ~Truthy(NodeIdOf(d)) THEN "no_node_id"
    ELSE IF NodeIdOf(d) = own THEN "own"
    ELSE IF ~Hashable(NodeIdOf(d)) THEN "unhashable"
    ELSE "new"

Classify_NeedsSignature(d, own, known) ==
    IF TooShort(d) THEN "short"
    ELSE IF Truncated(d) THEN "truncated"
    ELSE IF Signature(d) = << >> THEN "unsigned"
    ELSE IF ~JsonLoads(DescriptorJson(d)).ok THEN "decode_error"
    ELSE IF ~HasGet(DescriptorOf(d)) THEN "not_dict"
    ELSE IF ~Truthy(NodeIdOf(d)) THEN "no_node_id"
    ELSE IF NodeIdOf(d) = own THEN "own"
    ELSE IF ~Hashable(NodeIdOf(d)) THEN "unhashable"
    ELSE IF NodeIdOf(d) \in known THEN "known"
    ELSE "new"

\* Lines 259-283: what becomes of message d when the local node_id is `own`
\* and the known peers are `known`.
Classify(d, own, known) ==
    IF TooShort(d) THEN "short"
    ELSE IF Truncated(d) THEN "truncated"
    ELSE IF ~JsonLoads(DescriptorJson(d)).ok THEN "decode_error"
    ELSE IF ~HasGet(DescriptorOf(d)) THEN "not_dict"
    ELSE IF ~Truthy(NodeIdOf(d)) THEN "no_node_id"
    ELSE IF NodeIdOf(d) = own THEN "own"
    ELSE IF ~Hashable(NodeIdOf(d)) THEN "unhashable"
    ELSE IF NodeIdOf(d) \in known THEN "known"
    ELSE "new"

\* the outcomes that end in one of the two except clauses (lines 317-320)
Raises(c) == c \in {"decode_error", "not_dict", "unhashable"}

\* return from _handle_peer_message to the listen loop
HandleReturn == pc' = "lcheck"

\* the except clauses of _handle_peer_message: log, return
HandleExcept ==
    /\ failed' = TRUE
    /\ HandleReturn

\* lines 258-285
HandleParse ==
    /\ pc = "handle"
    /\ LET c == Classify(data, GetNodeId(node_descriptor), known_peers) IN
        IF c = "new" THEN pc' = "h_open" /\ UNCHANGED failed
        ELSE IF Raises(c) THEN HandleExcept
        ELSE HandleReturn /\ UNCHANGED failed
    /\ UNCHANGED << cfgVars, pairVars, toolVars, cbVars, sent, peerVars, slotVars, sockVars, running, end_time, data,
                    now, iface, pending, nframes, interrupted, observed >>

\* line 291: open(descriptor_path, "w") creates or truncates the file
HandleOpen ==
    /\ pc = "h_open"
    /\ LET path == PathOf(NodeIdOf(data)) IN
        \/ /\ DirExists(path.dir)
           /\ files' = [files EXCEPT ![path] = Empty]
           /\ pc' = "h_dump"
           /\ UNCHANGED failed
        \/ /\ HandleExcept
           /\ UNCHANGED files
    /\ UNCHANGED << cfgVars, pairVars, toolVars, cbVars, sent, known_peers, sigfiles, descWrites, callbacks, evictions,
                    sigFails, slotVars, sockVars, running, end_time, data,
                    now, iface, pending, nframes, interrupted, observed >>

\* line 292: json.dump(descriptor, f, indent=2) and the close of the file
HandleDump ==
    /\ pc = "h_dump"
    /\ LET id == NodeIdOf(data) IN
        \/ /\ files' = [files EXCEPT ![PathOf(id)] = Written(JsonDumpIndent(DescriptorOf(data)))]
           /\ descWrites' = [descWrites EXCEPT ![id] = @ + 1]
           /\ pc' = "h_sig"
           /\ UNCHANGED failed
        \/ /\ HandleExcept
           /\ UNCHANGED << files, descWrites >>
    /\ UNCHANGED << cfgVars, pairVars, toolVars, cbVars, sent, known_peers, sigfiles, callbacks, evictions,
                    sigFails, slotVars, sockVars, running, end_time, data,
                    now, iface, pending, nframes, interrupted, observed >>

\* lines 294-296 with the exception swallowed
HandleSig_IgnoresError ==
    /\ pc = "h_sig"
    /\ LET id == NodeIdOf(data)
           path == PathOf(id)
       IN  IF Signature(data) # << >>
           THEN \/ /\ sigfiles' = [sigfiles EXCEPT ![path] = Written(Signature(data))]
                   /\ UNCHANGED << failed, sigFails >>
                \/ /\ sigfiles' = [sigfiles EXCEPT ![path] = Empty]
                   /\ sigFails' = [sigFails EXCEPT ![id] = @ + 1]
                   /\ failed' = TRUE
           ELSE UNCHANGED << sigfiles, failed, sigFails >>
    /\ pc' = "h_cb"
    /\ UNCHANGED << cfgVars, pairVars, toolVars, cbVars, sent, known_peers, files, descWrites, callbacks, evictions,
                    slotVars, sockVars, running, end_time, data,
                    now, iface, pending, nframes, interrupted, observed >>

\* lines 294-296: the signature file, written only for a non-empty signature;
\* open(sig_path, "wb") fails, or creates the file and the write succeeds or fails
HandleSig ==
    /\ pc = "h_sig"
    /\ LET id == NodeIdOf(data)
           path == PathOf(id)
       IN  IF Signature(data) # << >>
           THEN \/ /\ sigfiles' = [sigfiles EXCEPT ![path] = Written(Signature(data))]
                   /\ pc' = "h_cb"
                   /\ UNCHANGED << failed, sigFails >>
                \/ /\ sigfiles' = [sigfiles EXCEPT ![path] = Empty]
                   /\ sigFails' = [sigFails EXCEPT ![id] = @ + 1]
                   /\ HandleExcept
                \/ /\ sigFails' = [sigFails EXCEPT ![id] = @ + 1]
                   /\ HandleExcept
                   /\ UNCHANGED sigfiles
           ELSE /\ pc' = "h_cb"
                /\ UNCHANGED << sigfiles, failed, sigFails >>
    /\ UNCHANGED << cfgVars, pairVars, toolVars, cbVars, sent, known_peers, files, descWrites, callbacks, evictions,
                    slotVars, sockVars, running, end_time, data,
                    now, iface, pending, nframes, interrupted, observed >>

\* line 302: self.peer_callback.split() + [str(descriptor_path)]
CallbackArgv_NoPath(cmd, path) == Split(cmd)
CallbackArgv(cmd, path) == Split(cmd) \o << path >>

\* lines 299-307: subprocess.run(argv, timeout=30, check=False) returns with the
\* exit status (nothing is logged for a non-zero one), or raises TimeoutExpired,
\* or OSError when the command cannot start; the exception is logged
HandleCallback ==
    /\ pc = "h_cb"
    /\ IF peer_callback # NoCallback
       THEN /\ callbacks' = [callbacks EXCEPT ![NodeIdOf(data)] = @ + 1]
            /\ argv' = CallbackArgv(peer_callback, PathText(NodeIdOf(data)))
            /\ \/ cb_result' = "zero" /\ UNCHANGED failed
               \/ cb_result' \in {"nonzero", "timeout", "oserror"} /\ failed' = TRUE
       ELSE UNCHANGED << callbacks, failed, cbVars >>
    /\ pc' = "h_track"
    /\ UNCHANGED << cfgVars, pairVars, toolVars, sent, known_peers, files, sigfiles, descWrites, evictions,
                    sigFails, slotVars, sockVars, running, end_time, data,
                    now, iface, pending, nframes, interrupted, observed >>

\* line 313: len(self.known_peers) > self.max_peers
OverCapacity_OffByOne(known, cap) == Cardinality(known) > cap + 1
OverCapacity(known, cap) == Cardinality(known) > cap

\* line 315: set.pop() removes and returns an arbitrary element of the set
PopChoices(known, added) == known

\* lines 310-315: known_peers.add(node_id) and the limit on known_peers
HandleTrack ==
    /\ pc = "h_track"
    /\ LET id == NodeIdOf(data)
           grown == known_peers \cup {id}
       IN  IF OverCapacity(grown, max_peers)
           THEN \E x \in PopChoices(grown, id) :
                   /\ known_peers' = grown \ {x}
                   /\ evictions' = [evictions EXCEPT ![x] = @ + 1]
           ELSE /\ known_peers' = grown
                /\ UNCHANGED evictions
    /\ argv' = << >>
    /\ cb_result' = "none"
    /\ HandleReturn
    /\ UNCHANGED << cfgVars, pairVars, toolVars, sent, files, sigfiles, descWrites, callbacks, sigFails,
                    slotVars, sockVars, running, end_time, data,
                    now, iface, pending, nframes, failed, interrupted, observed >>

(***************************************************************************)
(* stop(), lines 352-360, run by handle_signal (main, lines 419-423) when  *)
(* SIGTERM or SIGINT is delivered; Python runs the handler in the main     *)
(* thread between two of its steps.                                        *)
(***************************************************************************)
Stop ==
    /\ pc # "exited"
    /\ pc # "crashed"
    /\ running' = FALSE
    /\ sock' = IF current_socket = "sock" THEN "closed" ELSE sock
    /\ current_socket' = IF current_socket = "old_open" THEN "old_closed" ELSE current_socket
    /\ UNCHANGED << cfgVars, pairVars, toolVars, cbVars, sent, peerVars, slotVars, pc, end_time, data,
                    now, iface, pending, nframes, failed, interrupted, observed >>

\* The wall clock advances.  The daemon reads it with time.time() in
\* _get_epoch_slot (line 101), for end_time (line 235) and in the condition of the
\* listen loop (line 237); time that passes during any other step (a subprocess, a
\* select, a sleep, a callback of up to 30 s) shows at the next of these reads.
Tick ==
    /\ pc \in {"tick", "bind", "lcheck"}
    /\ now < scenario.horizon
    /\ now' = now + 1
    /\ UNCHANGED << cfgVars, pairVars, toolVars, cbVars, sent, peerVars, slotVars, sockVars, pc, running, end_time, data,
                    iface, pending, nframes, failed, interrupted, observed >>

\* one step of the daemon's only thread
Step ==
    \/ RunLoop
    \/ RunTick
    \/ RunRecord
    \/ RunSleep
    \/ BroadcastDescriptor
    \/ ListenAdd
    \/ ListenSocket
    \/ ListenBind
    \/ ListenCheck
    \/ ListenSelect
    \/ ListenRecv
    \/ ListenClose
    \/ ListenRemove
    \/ HandleParse
    \/ HandleOpen
    \/ HandleDump
    \/ HandleSig
    \/ HandleCallback
    \/ HandleTrack

Next == Step \/ Stop \/ Tick

Spec == Init /\ [][Next]_vars

\* The runs of one configuration in which the clock advances, with the fairness
\* the code has: every call the thread makes returns (the OS schedules the process,
\* select and the callback have timeouts), so the thread always takes its next step.
FairInit ==
    /\ Init
    /\ max_peers = 1
    /\ peer_callback = DefaultCallback
    /\ node_descriptor = LocalDescriptor
    /\ scenario.horizon = MaxTime
FairSpec == FairInit /\ [][Next]_vars /\ WF_vars(Step)

\* What an earlier run of the daemon left in peers_dir: the descriptor of n1 with
\* its signature, or the descriptors of n1 and n2.
PriorFiles ==
    { [p \in Paths |-> IF p = PathOf(Str("n1")) THEN Written(JsonDumpIndent(Dict(Str("n1"), 1)))
                       ELSE Absent],
      [p \in Paths |-> IF p = PathOf(Str("n1")) THEN Written(JsonDumpIndent(Dict(Str("n1"), 1)))
                       ELSE IF p = PathOf(Str("n2")) THEN Written(JsonDumpIndent(Dict(Str("n2"), 1)))
                       ELSE Absent] }
PriorSigFiles == [p \in Paths |-> IF p = PathOf(Str("n1")) THEN Written(Sig3) ELSE Absent]

\* the daemon started again on a host where it has run before
RestartInit ==
    /\ files \in PriorFiles
    /\ sigfiles = PriorSigFiles
    /\ DaemonStart
    /\ max_peers = 1
    /\ peer_callback = DefaultCallback
    /\ node_descriptor = LocalDescriptor
    /\ client = ClientOff
    /\ pure = NoCall
    /\ boot = BootOff
RestartSpec == RestartInit /\ [][Next]_vars

(***************************************************************************)
(* Two daemons with the same configuration on one loss-free link, with one  *)
(* clock.  Every OS call succeeds; a datagram sent to the rendezvous        *)
(* endpoint is queued at the peer when the peer's socket is bound to that   *)
(* endpoint, and is lost otherwise.                                         *)
(***************************************************************************)
\* run() lines 331-336: a new (epoch, slot) is entered
PairEnter(p) ==
    /\ daemons[p].pc = "tick"
    /\ GetEpochSlot(clock) # daemons[p].last
    /\ daemons' = [daemons EXCEPT ![p].cur = GetEpochSlot(clock),
                                  ![p].entered = @ \cup {GetEpochSlot(clock)},
                                  ![p].pc = "broadcast"]
    /\ UNCHANGED << daemonVars, toolVars, clock >>

\* the endpoint a daemon derives for its current slot
PairEndpoint(p) ==
    << DeriveRendezvousAddress(daemons[p].cur[1], daemons[p].cur[2]), DerivePort(daemons[p].cur[2]) >>

\* _broadcast_descriptor: sendto(message, (addr, port))
PairBroadcast(p) ==
    /\ daemons[p].pc = "broadcast"
    /\ LET q == Other(p)
           message == Encode(NoSig, JsonDumps(Dict(NodeId(p), 1)))
       IN  daemons' =
              IF daemons[q].bound /\ PairEndpoint(q) = PairEndpoint(p)
              THEN [daemons EXCEPT ![p].pc = "add", ![q].inbox = Append(@, message)]
              ELSE [daemons EXCEPT ![p].pc = "add"]
    /\ UNCHANGED << daemonVars, toolVars, clock >>

\* _listen_for_peers line 221: _add_address
PairAdd(p) ==
    /\ daemons[p].pc = "add"
    /\ daemons' = [daemons EXCEPT ![p].pc = "bind"]
    /\ UNCHANGED << daemonVars, toolVars, clock >>

\* lines 225-235: the socket is bound, end_time is set
PairBind(p) ==
    /\ daemons[p].pc = "bind"
    /\ daemons' = [daemons EXCEPT ![p].bound = TRUE,
                                  ![p].end_time = clock + slot_duration_ms,
                                  ![p].pc = "listen"]
    /\ UNCHANGED << daemonVars, toolVars, clock >>

\* lines 237-243 and _handle_peer_message for a queued datagram
PairRecv(p) ==
    /\ daemons[p].pc = "listen"
    /\ clock < daemons[p].end_time
    /\ daemons[p].inbox # << >>
    /\ LET message == Head(daemons[p].inbox)
           id == NodeIdOf(message)
           grown == daemons[p].known_peers \cup {id}
       IN  IF Classify(message, NodeId(p), daemons[p].known_peers) = "new"
           THEN \E x \in (IF OverCapacity(grown, default_max_peers) THEN PopChoices(grown, id) ELSE {None}) :
                   daemons' = [daemons EXCEPT ![p].inbox = Tail(@),
                                              ![p].files = @ \cup {PathText(id)},
                                              ![p].calls = @ \cup {CallbackArgv(DefaultCallback, PathText(id))},
                                              ![p].known_peers = grown \ {x}]
           ELSE daemons' = [daemons EXCEPT ![p].inbox = Tail(@)]
    /\ UNCHANGED << daemonVars, toolVars, clock >>

\* lines 237, 247-251 and 346-347: the listen ends, the socket is closed with
\* what is still queued in it, the address removed and the slot recorded
PairClose(p) ==
    /\ daemons[p].pc = "listen"
    /\ clock >= daemons[p].end_time
    /\ daemons' = [daemons EXCEPT ![p].bound = FALSE,
                                  ![p].dropped = @ \/ daemons[p].inbox # << >>,
                                  ![p].inbox = << >>,
                                  ![p].last = daemons[p].cur,
                                  ![p].pc = "tick"]
    /\ UNCHANGED << daemonVars, toolVars, clock >>

\* the common clock advances, up to the end of the first epoch
PairTick ==
    /\ clock < epoch_seconds
    /\ clock' = clock + 1
    /\ UNCHANGED << daemonVars, toolVars, daemons >>

PairStep(p) ==
    \/ PairEnter(p)
    \/ PairBroadcast(p)
    \/ PairAdd(p)
    \/ PairBind(p)
    \/ PairRecv(p)
    \/ PairClose(p)

PairNext == PairTick \/ \E p \in Nodes : PairStep(p)

PairInit ==
    /\ Init
    /\ max_peers = 1
    /\ peer_callback = DefaultCallback
    /\ node_descriptor = LocalDescriptor
    /\ scenario.frames = MaxFrames /\ scenario.peers = "any"

PairSpec == PairInit /\ [][PairNext]_vars

(***************************************************************************)
(* rendezvous-client.py: one run of `rendezvous-client <command>`           *)
(***************************************************************************)
MaxClientFrames == 2

interface == "eth0"

\* what the descriptor file of the host holds: nothing (no file), a descriptor,
\* a JSON text that is no object, bytes that are no JSON
DescriptorFiles == {"missing", "dict", "list", "garbage"}
DescriptorFileBytes(file) ==
    CASE file = "dict" -> JsonDumps(LocalDescriptor)
      [] file = "list" -> << 91, 93 >>
      [] OTHER -> << 120 >>

\* the datagrams that reach the client while it listens
ClientDatagrams ==
    { Encode(Sig3, JsonDumps(Dict(Str("n1"), 1))),
      Encode(NoSig, JsonDumps(Dict(Str("n2"), 1))),
      Encode(NoSig, JsonDumps(LocalDescriptor)),
      Encode(NoSig, << 123, 125 >>),
      Encode(NoSig, << 91, 93 >>),
      << 0, 0, 0 >>,
      << 0, 0, 0, 5, 1 >>,
      << 0, 0, 0, 0, 120 >>,
      << 0, 0, 0, 0, 255 >> }

\* descriptor.get("node_id", "unknown")
GetNodeIdOrUnknown(d) == IF d.node_id = None THEN Str("unknown") ELSE d.node_id

\* the address of the current slot, as add_address found it on the interface
ClientStarts ==
    { ClientStart(c, k, f, t, b) :
          c \in {"broadcast", "discover", "status"}, k \in {"", "s"}, f \in DescriptorFiles,
          t \in 0..MaxTime, b \in {{}, {"rendezvous"}} }

\* main(), lines 267-283: the configuration check and the dispatch; the endpoint
\* of the current slot (lines 93-96, 146-149, 216-218).  A configured mesh_secret
\* is the one of the daemon.
ClientMain ==
    /\ client.pc = "main"
    /\ IF client.mesh_secret = ""
       THEN client' = [client EXCEPT !.pc = "exit", !.exit = 1, !.returned = "no mesh_secret"]
       ELSE LET es == GetEpochSlot(client.now) IN
            client' = [client EXCEPT !.epoch = es[1], !.slot = es[2],
                                     !.addr = derive_rendezvous_address(mesh_secret, es[1], es[2]),
                                     !.port = CLIENT_RENDEZVOUS_PORT + es[2],
                                     !.pc = IF client.command = "status" THEN "status" ELSE "add"]
    /\ UNCHANGED << daemonVars, pairVars, pure, boot >>

\* add_address (lines 74-80) as called at lines 102 and 156: `ip` adds the
\* address; or fails with "exists" on stderr; or fails otherwise, and the command
\* prints and returns; or cannot be run, and the exception leaves main()
ClientAdd ==
    /\ client.pc = "add"
    /\ LET next == IF client.command = "broadcast" THEN "b_load" ELSE "d_bind" IN
        \/ /\ "rendezvous" \notin client.iface
           /\ client' = [client EXCEPT !.iface = @ \cup {"rendezvous"},
                                       !.adds = Append(@, << interface, client.addr >>),
                                       !.pc = next]
        \/ /\ "rendezvous" \in client.iface
           /\ client' = [client EXCEPT !.adds = Append(@, << interface, client.addr >>),
                                       !.pc = next]
        \/ client' = [client EXCEPT !.pc = "exit", !.exit = 0, !.returned = "add failed"]
        \/ client' = [client EXCEPT !.pc = "exit", !.exit = 1, !.raised = "OSError"]
    /\ UNCHANGED << daemonVars, pairVars, pure, boot >>

\* broadcast_descriptor, lines 108-121: the descriptor file is missing (print,
\* return through the finally), cannot be parsed (the exception leaves through the
\* finally), or is loaded
BroadcastLoad ==
    /\ client.pc = "b_load"
    /\ client' =
          CASE client.descriptor_file = "missing" ->
                  [client EXCEPT !.pc = "finally", !.returned = "descriptor not found"]
            [] client.descriptor_file = "garbage" ->
                  [client EXCEPT !.pc = "finally", !.raised = "JSONDecodeError"]
            [] OTHER -> [client EXCEPT !.pc = "b_send"]
    /\ UNCHANGED << daemonVars, pairVars, pure, boot >>

\* lines 117-138: the message of the signature file (if there is one) and the
\* descriptor; socket, if_nametoindex or sendto raise, or the message is sent
\* once; the print of line 138 raises for a descriptor that is no object
BroadcastSend ==
    /\ client.pc = "b_send"
    /\ \/ client' = [client EXCEPT !.pc = "finally", !.raised = "OSError"]
       \/ \E sg \in {NoSig, Sig3} :
             LET descriptor == JsonLoads(DescriptorFileBytes(client.descriptor_file)).value
                 message == ClientEncode(sg, JsonDumps(descriptor))
             IN  client' = [client EXCEPT !.sends = Append(@, message),
                                          !.pc = "finally",
                                          !.raised = IF HasGet(descriptor) THEN "" ELSE "AttributeError"]
    /\ UNCHANGED << daemonVars, pairVars, pure, boot >>

\* discover_peers, lines 160-170: socket, settimeout, if_nametoindex and bind
\* raise, or the socket is bound
DiscoverBind ==
    /\ client.pc = "d_bind"
    /\ \/ client' = [client EXCEPT !.pc = "finally", !.raised = "OSError"]
       \/ client' = [client EXCEPT !.pc = "d_check"]
    /\ UNCHANGED << daemonVars, pairVars, pure, boot >>

\* line 172, `while time.time() < end_time:`, and sock.close() after the loop
DiscoverCheck ==
    /\ client.pc = "d_check"
    /\ \/ client' = [client EXCEPT !.pc = "d_recv"]
       \/ client' = [client EXCEPT !.pc = "finally"]
    /\ UNCHANGED << daemonVars, pairVars, pure, boot >>

\* lines 173-194: recvfrom times out after 1 s, or returns a datagram: short and
\* truncated messages and texts that are no JSON are skipped, bytes that are no
\* text and JSON values without .get raise out of the loop, every other
\* descriptor is appended to peers
DiscoverRecv ==
    /\ client.pc = "d_recv"
    /\ \/ client' = [client EXCEPT !.pc = "d_check"]
       \/ /\ client.received < MaxClientFrames
          /\ \E d \in ClientDatagrams :
                LET loaded == JsonLoads(DescriptorJson(d)) IN
                client' =
                    IF TooShort(d) \/ Truncated(d) \/ loaded.err = "JSONDecodeError"
                    THEN [client EXCEPT !.received = @ + 1, !.pc = "d_check"]
                    ELSE IF ~loaded.ok
                    THEN [client EXCEPT !.received = @ + 1, !.pc = "finally", !.raised = loaded.err]
                    ELSE IF ~HasGet(loaded.value)
                    THEN [client EXCEPT !.received = @ + 1, !.pc = "finally",
                                        !.raised = "AttributeError"]
                    ELSE [client EXCEPT !.received = @ + 1, !.pc = "d_check",
                                        !.peers = Append(@, loaded.value)]
    /\ UNCHANGED << daemonVars, pairVars, pure, boot >>

\* remove_address after the try block instead of in a finally
ClientFinally_SkippedByException ==
    /\ client.pc = "finally"
    /\ \E gone \in {client.iface, client.iface \ {"rendezvous"}} :
          client' =
              IF client.raised # "" \/ client.returned # ""
              THEN [client EXCEPT !.pc = "exit", !.exit = IF client.raised # "" THEN 1 ELSE 0]
              ELSE [client EXCEPT !.iface = gone,
                                  !.removes = Append(@, << interface, client.addr >>),
                                  !.pc = IF client.command = "broadcast" THEN "exit" ELSE "d_print",
                                  !.exit = IF client.command = "broadcast" THEN 0 ELSE @]
    /\ UNCHANGED << daemonVars, pairVars, pure, boot >>

\* the finally of lines 140-141 and 198-199: remove_address, whose result is
\* ignored; then the exception goes on, or broadcast_descriptor returns to main()
\* and the process ends, or discover_peers returns peers
ClientFinally ==
    /\ client.pc = "finally"
    /\ \E gone \in {client.iface, client.iface \ {"rendezvous"}} :
          client' = [client EXCEPT !.iface = gone,
                                   !.removes = Append(@, << interface, client.addr >>),
                                   !.pc = IF client.raised # "" \/ client.command = "broadcast"
                                          THEN "exit" ELSE "d_print",
                                   !.exit = IF client.raised # "" THEN 1
                                            ELSE IF client.command = "broadcast" THEN 0 ELSE @]
    /\ UNCHANGED << daemonVars, pairVars, pure, boot >>

\* main(), lines 277-281: the list discover_peers returned is printed
DiscoverPrint ==
    /\ client.pc = "d_print"
    /\ client' = [client EXCEPT !.printed = client.peers, !.pc = "exit", !.exit = 0]
    /\ UNCHANGED << daemonVars, pairVars, pure, boot >>

\* show_status, lines 204-240: the current endpoint and the next three slots
ShowStatus ==
    /\ client.pc = "status"
    /\ LET upcoming(i) ==
               LET future_slot == (client.slot + i) % slots_per_epoch
                   future_epoch == IF client.slot + i < slots_per_epoch THEN client.epoch
                                   ELSE client.epoch + 1
               IN  << future_epoch, future_slot,
                      derive_rendezvous_address(mesh_secret, future_epoch, future_slot),
                      CLIENT_RENDEZVOUS_PORT + future_slot >>
       IN  client' = [client EXCEPT !.printed = << << client.epoch, client.slot, client.addr,
                                                      client.port >>,
                                                   upcoming(1), upcoming(2), upcoming(3) >>,
                                    !.pc = "exit", !.exit = 0]
    /\ UNCHANGED << daemonVars, pairVars, pure, boot >>

ClientNext ==
    \/ ClientMain
    \/ ClientAdd
    \/ BroadcastLoad
    \/ BroadcastSend
    \/ DiscoverBind
    \/ DiscoverCheck
    \/ DiscoverRecv
    \/ ClientFinally
    \/ DiscoverPrint
    \/ ShowStatus

\* one run of the client; no daemon runs
ClientInit ==
    /\ DaemonInit
    /\ max_peers = 1
    /\ peer_callback = DefaultCallback
    /\ node_descriptor = LocalDescriptor
    /\ scenario.frames = 0
    /\ pure = NoCall
    /\ boot = BootOff
    /\ client \in ClientStarts

ClientSpec == ClientInit /\ [][ClientNext]_vars

(***************************************************************************)
(* The functions without state, each applied to one input: endpoint         *)
(* derivation of the daemon and of the client, the address made of a        *)
(* digest, the wire codec, the clock/slot oracle.                           *)
(***************************************************************************)
MaxSecret == 2
MaxEpochArg == 3
MaxSlotArg == 3
MaxEpochSeconds == 3
MaxSlotsPerEpoch == 5

Call(op, in) == [op |-> op, in |-> in, out |-> << >>, done |-> FALSE]

\* mesh secrets, epochs and slots
DeriveInputs ==
    { Call("derive", << k, e, sl >>) :
          k \in {mesh_secret} \cup 0..MaxSecret, e \in 0..MaxEpochArg, sl \in 0..MaxSlotArg }

\* 32-byte digests: every value of the first byte, with zero and non-zero groups
\* after it
Macs == { [i \in 1..32 |-> (a + b * (i - 1)) % 256] : a \in 0..255, b \in {0, 1, 7} }
        \cup { [i \in 1..32 |-> IF i = 1 THEN a ELSE 0] : a \in 0..255 }
AddressInputs == { Call("address", mac) : mac \in Macs }

\* signatures (none, short, longer than 255 bytes) and descriptor bytes (none,
\* bytes that look like a header, JSON texts, bytes that are no text)
LongSig == [i \in 1..300 |-> (i * 7) % 256]
CodecSignatures == {NoSig, Sig1, Sig3, << 0, 0, 0, 0 >>, LongSig}
CodecDescriptors ==
    { << >>, << 0 >>, << 0, 0, 0, 1 >>, << 255, 254 >>, << 123, 125 >>,
      JsonDumps(LocalDescriptor), JsonDumps(Dict(Str("n1"), 2)), Encode(Sig1, << 123, 125 >>) }
CodecInputs == { Call("codec", << sg, b >>) : sg \in CodecSignatures, b \in CodecDescriptors }

\* times (a float and the next one), epoch lengths and slot counts
OracleInputs ==
    { Call("oracle", << FloatOf(m, e), NextFloat(m, e), es, spe >>) :
          m \in Pow2(FloatBits - 1)..(Pow2(FloatBits) - 1), e \in MinExponent..MaxExponent,
          es \in 1..MaxEpochSeconds, spe \in 1..MaxSlotsPerEpoch }
    \cup { Call("oracle", << << 0, 1 >>, FloatOf(Pow2(FloatBits - 1), MinExponent), es, spe >>) :
              es \in 1..MaxEpochSeconds, spe \in 1..MaxSlotsPerEpoch }

\* the daemon's and the client's endpoint for one (mesh_secret, epoch, slot)
ApplyDerive ==
    /\ pure.op = "derive"
    /\ ~pure.done
    /\ LET k == pure.in[1]
           e == pure.in[2]
           sl == pure.in[3]
       IN  pure' = [pure EXCEPT !.done = TRUE,
                                !.out = [daemon |-> << IPv6Text(DeriveRendezvousAddressOf(k, e, sl)),
                                                       DerivePort(sl) >>,
                                         client |-> << derive_rendezvous_address(k, e, sl),
                                                       CLIENT_RENDEZVOUS_PORT + sl >>]]
    /\ UNCHANGED << daemonVars, pairVars, client, boot >>

\* the address bytes for one digest
ApplyLinkLocal ==
    /\ pure.op = "address"
    /\ ~pure.done
    /\ pure' = [pure EXCEPT !.done = TRUE, !.out = LinkLocal(pure.in)]
    /\ UNCHANGED << daemonVars, pairVars, client, boot >>

\* the frame the daemon and the client build of a signature and descriptor bytes,
\* parsed by the daemon
ApplyCodec ==
    /\ pure.op = "codec"
    /\ ~pure.done
    /\ pure' = [pure EXCEPT !.done = TRUE,
                            !.out = [daemon |-> ParseMessage(Encode(pure.in[1], pure.in[2])),
                                     client |-> ParseMessage(ClientEncode(pure.in[1], pure.in[2]))]]
    /\ UNCHANGED << daemonVars, pairVars, client, boot >>

\* the oracle at a time and at the next time the clock can show
ApplyOracle ==
    /\ pure.op = "oracle"
    /\ ~pure.done
    /\ pure' = [pure EXCEPT !.done = TRUE,
                            !.out = << FloatEpochSlot(pure.in[1], pure.in[3], pure.in[4]),
                                       FloatEpochSlot(pure.in[2], pure.in[3], pure.in[4]) >>]
    /\ UNCHANGED << daemonVars, pairVars, client, boot >>

\* ip -6 addr add / del on the addresses of the interface: the return code and
\* the words of stderr; without the privilege nothing changes
FileExists == << "RTNETLINK", "answers:", "File", "exists" >>
CannotAssign == << "RTNETLINK", "answers:", "Cannot", "assign", "requested", "address" >>
NotPermitted == << "RTNETLINK", "answers:", "Operation", "not", "permitted" >>
IpAddrAdd(addrs, a, permitted) ==
    IF ~permitted THEN [returncode |-> 2, stderr |-> NotPermitted, addrs |-> addrs]
    ELSE IF a \in addrs THEN [returncode |-> 2, stderr |-> FileExists, addrs |-> addrs]
    ELSE [returncode |-> 0, stderr |-> << >>, addrs |-> addrs \cup {a}]
IpAddrDel(addrs, a, permitted) ==
    IF ~permitted THEN [returncode |-> 2, stderr |-> NotPermitted, addrs |-> addrs]
    ELSE IF a \notin addrs THEN [returncode |-> 2, stderr |-> CannotAssign, addrs |-> addrs]
    ELSE [returncode |-> 0, stderr |-> << >>, addrs |-> addrs \ {a}]

\* part in text
Contains(text, part) ==
    \E i \in 0..(Len(text) - Len(part)) : SubSeq(text, i + 1, i + Len(part)) = part

\* _add_address and _remove_address of the daemon
AddAddress(addrs, a, permitted) ==
    LET result == IpAddrAdd(addrs, a, permitted)
    IN  [returned |-> IF result.returncode = 0 THEN "True"
                      ELSE IF Contains(result.stderr, FileExists) THEN "True"
                      ELSE "False",
         addrs |-> result.addrs]
RemoveAddress(addrs, a, permitted) ==
    LET result == IpAddrDel(addrs, a, permitted)
    IN  [returned |-> IF result.returncode = 0 THEN "True"
                      ELSE IF Contains(result.stderr, CannotAssign) THEN "True"
                      ELSE "False",
         addrs |-> result.addrs]

\* add_address and remove_address of the client; remove_address has no
\* return statement
add_address(addrs, a, permitted) ==
    LET result == IpAddrAdd(addrs, a, permitted)
    IN  [returned |-> IF result.returncode = 0 \/ Contains(result.stderr, << "exists" >>)
                      THEN "True" ELSE "False",
         addrs |-> result.addrs]
remove_address(addrs, a, permitted) ==
    [returned |-> "None", addrs |-> IpAddrDel(addrs, a, permitted).addrs]

Addresses == {"fe80::1", "fe80::2"}
BinderInputs ==
    { Call("binder", << who, addrs, a, permitted >>) :
        who \in {"daemon", "client"}, addrs \in SUBSET Addresses, a \in Addresses,
        permitted \in BOOLEAN }

\* one add on the addresses, one remove on the addresses, and the remove
\* that follows the add
ApplyBinder ==
    /\ pure.op = "binder"
    /\ ~pure.done
    /\ LET who == pure.in[1]
           addrs == pure.in[2]
           a == pure.in[3]
           permitted == pure.in[4]
           added == IF who = "daemon" THEN AddAddress(addrs, a, permitted)
                    ELSE add_address(addrs, a, permitted)
           removed == IF who = "daemon" THEN RemoveAddress(addrs, a, permitted)
                      ELSE remove_address(addrs, a, permitted)
           both == IF who = "daemon" THEN RemoveAddress(added.addrs, a, permitted)
                   ELSE remove_address(added.addrs, a, permitted)
       IN  pure' = [pure EXCEPT !.done = TRUE, !.out = << added, removed, both >>]
    /\ UNCHANGED << daemonVars, pairVars, client, boot >>

PureNext == ApplyDerive \/ ApplyLinkLocal \/ ApplyCodec \/ ApplyOracle \/ ApplyBinder

\* one call; no daemon and no client runs
PureInit ==
    /\ DaemonInit
    /\ max_peers = 1
    /\ peer_callback = DefaultCallback
    /\ node_descriptor = LocalDescriptor
    /\ scenario.frames = 0
    /\ client = ClientOff
    /\ boot = BootOff
    /\ \/ pure \in DeriveInputs
       \/ pure \in AddressInputs
       \/ pure \in CodecInputs
       \/ pure \in OracleInputs
       \/ pure \in BinderInputs

PureSpec == PureInit /\ [][PureNext]_vars

\* ---------------------------------------------------------------------------
\* The start of the daemon: load_config, main() and the first pass of run()
\* ---------------------------------------------------------------------------
default_mesh_secret == << >>
default_epoch_seconds == 60
default_slots_per_epoch == 4
default_slot_duration_ms == 500

Whitespace == {" ", "\t"}
Quotes == {"\"", "'"}
Digits == << "0", "1", "2", "3", "4", "5", "6", "7", "8", "9" >>

\* str.strip(chars): the characters of the set are removed from both ends
RECURSIVE StripLeft(_, _)
StripLeft(text, chars) ==
    IF text # << >> /\ Head(text) \in chars THEN StripLeft(Tail(text), chars) ELSE text
RECURSIVE StripRight(_, _)
StripRight(text, chars) ==
    IF text # << >> /\ text[Len(text)] \in chars
    THEN StripRight(SubSeq(text, 1, Len(text) - 1), chars)
    ELSE text
Strip(text, chars) == StripRight(StripLeft(text, chars), chars)

\* value.strip().strip('"\'') of a line key=value
ConfigValue(text) == Strip(Strip(text, Whitespace), Quotes)

DigitOf(c) == CHOOSE d \in 0..9 : Digits[d + 1] = c
RECURSIVE DecimalOf(_)
DecimalOf(text) ==
    IF text = << >> THEN 0 ELSE 10 * DecimalOf(SubSeq(text, 1, Len(text) - 1)) + DigitOf(text[Len(text)])
IsDecimal(text) == text # << >> /\ \A i \in 1..Len(text) : \E d \in 1..10 : Digits[d] = text[i]

\* int(value): surrounding whitespace and one sign are accepted, anything else
\* is a ValueError
IntOf(value) ==
    LET v == Strip(value, Whitespace)
        signed == v # << >> /\ Head(v) \in {"-", "+"}
        digits == IF signed THEN Tail(v) ELSE v
    IN  IF ~IsDecimal(digits) THEN [error |-> "ValueError", value |-> 0]
        ELSE [error |-> "", value |-> IF signed /\ Head(v) = "-" THEN 0 - DecimalOf(digits) ELSE DecimalOf(digits)]

IntKeys == {"epoch_seconds", "slots_per_epoch", "slot_duration_ms"}
DefaultConfig ==
    [mesh_secret |-> default_mesh_secret, epoch_seconds |-> default_epoch_seconds,
     slots_per_epoch |-> default_slots_per_epoch, slot_duration_ms |-> default_slot_duration_ms]

\* load_config: a key of the file replaces the default, an integer key through int()
LoadConfig(file) ==
    LET bad == { k \in IntKeys : file[k] # "missing" /\ IntOf(ConfigValue(file[k])).error # "" }
    IN  IF bad # {} THEN [error |-> "ValueError", config |-> << >>]
        ELSE [error |-> "",
              config |-> [k \in DOMAIN DefaultConfig |->
                            IF file[k] = "missing" THEN DefaultConfig[k]
                            ELSE IF k \in IntKeys THEN IntOf(ConfigValue(file[k])).value
                            ELSE ConfigValue(file[k])]]

\* _get_epoch_slot and _derive_rendezvous_address on the first pass of run():
\* a division by zero raises, and struct.pack(">QI") raises on a negative
\* epoch or slot
FirstSlot(t, es, spe) ==
    IF es = 0 \/ spe = 0 THEN [error |-> "ZeroDivisionError", epoch |-> 0, slot |-> 0]
    ELSE IF es < 0 THEN
        IF t = 0 THEN [error |-> "", epoch |-> 0, slot |-> 0]
        ELSE [error |-> "struct.error", epoch |-> 0, slot |-> 0]
    ELSE IF spe < 0 THEN
        IF (((t % es) * (0 - spe)) \div es) = 0
        THEN [error |-> "", epoch |-> t \div es, slot |-> 0]
        ELSE [error |-> "struct.error", epoch |-> 0, slot |-> 0]
    ELSE [error |-> "", epoch |-> t \div es, slot |-> ((t % es) * spe) \div es]

BootLoadConfig ==
    /\ boot.pc = "load"
    /\ LET loaded == LoadConfig(boot.file)
       IN  boot' = IF loaded.error # ""
                   THEN [boot EXCEPT !.pc = "exit", !.raised = loaded.error, !.exit = 1]
                   ELSE [boot EXCEPT !.pc = "main", !.config = loaded.config]
    /\ UNCHANGED << daemonVars, pairVars, client, pure >>

\* main() with the check of mesh_secret left out
BootMain_NoSecretCheck ==
    /\ boot.pc = "main"
    /\ boot' = [boot EXCEPT !.pc = "run", !.constructed = TRUE]
    /\ UNCHANGED << daemonVars, pairVars, client, pure >>

\* main(): an empty mesh_secret ends the process with status 1, anything else
\* constructs the daemon and calls run()
BootMain ==
    /\ boot.pc = "main"
    /\ boot' = IF boot.config.mesh_secret = << >>
               THEN [boot EXCEPT !.pc = "exit", !.exit = 1]
               ELSE [boot EXCEPT !.pc = "run", !.constructed = TRUE]
    /\ UNCHANGED << daemonVars, pairVars, client, pure >>

\* the first pass of the loop of run(): an exception leaves main() with a
\* traceback, otherwise the slot is entered
BootRun ==
    /\ boot.pc = "run"
    /\ LET first == FirstSlot(boot.now, boot.config.epoch_seconds, boot.config.slots_per_epoch)
       IN  boot' = IF first.error # ""
                   THEN [boot EXCEPT !.pc = "exit", !.raised = first.error, !.exit = 1]
                   ELSE [boot EXCEPT !.pc = "slot", !.entered = << first.epoch, first.slot >>]
    /\ UNCHANGED << daemonVars, pairVars, client, pure >>

BootNext == BootLoadConfig \/ BootMain \/ BootRun

SecretTexts == {"missing", << >>, << "\"", "\"" >>, << "s" >>, << "'", "s", "'" >>}
EpochSecondsTexts == {"missing", << "3", "0" >>, << "0" >>, << "-", "1" >>, << "x" >>}
SlotsPerEpochTexts == {"missing", << "\"", "2", "\"" >>, << "0" >>, << "-", "2" >>, << >>}
SlotDurationTexts ==
    {"missing", << " ", "2", "5", "0" >>, << "0" >>, << "-", "5" >>, << "9", "9", "9", "9", "9" >>,
     << "1", "s" >>}
BootTimes == {0, 45}

BootInit ==
    /\ DaemonInit
    /\ max_peers = 1
    /\ peer_callback = DefaultCallback
    /\ node_descriptor = LocalDescriptor
    /\ scenario.frames = 0
    /\ client = ClientOff
    /\ pure = NoCall
    /\ \E secret \in SecretTexts, es \in EpochSecondsTexts, spe \in SlotsPerEpochTexts,
          ms \in SlotDurationTexts, t \in BootTimes :
          boot = BootStart(secret, es, spe, ms, t)

BootSpec == BootInit /\ [][BootNext]_vars

TypeOK ==
    /\ max_peers \in 0..MaxPeersBound
    /\ known_peers \subseteq PeerIds
    /\ pc \in {"loop", "tick", "broadcast", "add", "socket", "bind", "lcheck", "select",
               "recv", "handle", "h_open", "h_dump", "h_sig", "h_cb", "h_track",
               "close", "remove", "post", "sleep", "exited", "crashed"}
    /\ sock \in {"none", "open", "closed"}
    /\ current_socket \in {"None", "sock", "old_open", "old_closed"}
    /\ now \in 0..MaxTime
    /\ nframes \in 0..MaxFrames

(***************************************************************************)
(* Properties                                                              *)
(***************************************************************************)
RECURSIVE SumOver(_, _)
SumOver(f, S) ==
    IF S = {} THEN 0
    ELSE LET x == CHOOSE y \in S : TRUE IN f[x] + SumOver(f, S \ {x})

Min(a, b) == IF a < b THEN a ELSE b

HandlerPcs == {"handle", "h_open", "h_dump", "h_sig", "h_cb", "h_track"}
Frame(sig, id, v) == Encode(sig, JsonDumps(Dict(id, v)))
OwnNodeId == GetNodeId(node_descriptor)

\* node_id matches [A-Za-z0-9_.-]+
ValidNodeId(id) == id.t = "str" /\ id.s \in {"n0", "n1", "n2", "n3"}

\* C1: whenever _handle_peer_message is not between the insertion and the limit,
\* known_peers holds at most max_peers entries; with a callback configured its size
\* is the number of peers inserted so far, capped at max_peers (3 peers inserted
\* with max_peers = 2 leave exactly 2).
C1_KnownPeersBounded ==
    /\ Cardinality(known_peers) <= max_peers
    /\ (peer_callback # NoCallback /\ pc # "h_track")
          => Cardinality(known_peers) = Min(SumOver(callbacks, PeerIds), max_peers)

\* n1, n2 and n3 have been inserted with max_peers = 2 and the handler has returned
C1_Witness ==
    /\ max_peers = 2
    /\ pc = "lcheck"
    /\ callbacks[Str("n1")] = 1 /\ callbacks[Str("n2")] = 1 /\ callbacks[Str("n3")] = 1
    /\ data = Frame(Sig1, Str("n3"), 1)
    /\ Cardinality(known_peers) = 2

\* C2: when the local descriptor has a node_id, a frame carrying that node_id never
\* gets past the checks: no file of it is written, no callback runs for it and it
\* never enters known_peers.
C2_OwnDescriptorDropped ==
    node_descriptor # EmptyDescriptor =>
        /\ OwnNodeId \notin known_peers
        /\ descWrites[OwnNodeId] = 0
        /\ callbacks[OwnNodeId] = 0
        /\ files[PathOf(OwnNodeId)] = Absent
        /\ sigfiles[PathOf(OwnNodeId)] = Absent
        /\ (pc \in HandlerPcs \ {"handle"} => NodeIdOf(data) # OwnNodeId)

\* a frame with the local node_id has been handled after another peer was learned
C2_Witness ==
    /\ node_descriptor = LocalDescriptor
    /\ pc = "lcheck"
    /\ data = Frame(Sig3, Str("n0"), 1)
    /\ known_peers # {}

\* C3 as stated: the descriptor file of a node_id is written at most once and the
\* callback runs at most once for it in a process lifetime.
C3_HandledAtMostOnce ==
    \A id \in PeerIds : descWrites[id] <= 1 /\ callbacks[id] <= 1

\* C3 amended: a frame whose node_id is in known_peers is dropped, so the callback
\* runs at most once per entry of the node_id into known_peers (1 + its evictions)
\* and its descriptor file is written at most once per entry, plus once for every
\* sighting abandoned because the signature file could not be written.
C3_HandledOncePerEntry ==
    \A id \in PeerIds :
        /\ callbacks[id] <= 1 + evictions[id]
        /\ descWrites[id] <= 1 + evictions[id] + sigFails[id]
        /\ (id \in known_peers /\ pc \in HandlerPcs \ {"handle"}) => NodeIdOf(data) # id

\* n1 was learned from its first frame; a second, different frame of n1 has been
\* handled and has changed nothing
C3_Witness ==
    /\ pc = "lcheck"
    /\ data = Frame(NoSig, Str("n1"), 2)
    /\ Str("n1") \in known_peers
    /\ files[PathOf(Str("n1"))] = Written(JsonDumpIndent(Dict(Str("n1"), 1)))
    /\ descWrites[Str("n1")] = 1
    /\ callbacks[Str("n1")] = 1

\* C4: a node_id that does not match [A-Za-z0-9_.-]+ never reaches the disk, the
\* callback or known_peers.
C4_InvalidNodeIdRejected ==
    \A id \in PeerIds :
        ~ValidNodeId(id) =>
            /\ files[PathOf(id)] = Absent
            /\ sigfiles[PathOf(id)] = Absent
            /\ descWrites[id] = 0
            /\ callbacks[id] = 0
            /\ id \notin known_peers

\* C5: the number of descriptor files of valid peers written under peers_dir is at
\* most max_peers.
C5_PersistedSetBounded ==
    Cardinality({ id \in PeerIds : ValidNodeId(id) /\ PathOf(id).dir = "peers"
                                   /\ descWrites[id] > 0
                                   /\ files[PathOf(id)].st = "written" })
        <= max_peers

\* C6: once _listen_for_peers has returned, the address it added has been handed to
\* _remove_address.
C6_BindUnbindPaired ==
    pc \in {"post", "sleep", "loop", "tick", "broadcast", "exited"} => pending = NoAddr

\* C7: when the process exits after a signal and no OS call has failed on its own,
\* every rendezvous address has been removed from the interface.
C7_UnbindOnSignal ==
    (pc = "exited" /\ ~failed) => (pending = NoAddr /\ iface = {})

\* C8: once stop() has run the daemon terminates, and after a loop condition has
\* read the flag no slot is entered, nothing is broadcast and nothing is received.
C8_StopTerminates ==
    /\ (~running) ~> (pc = "exited")
    /\ [][observed => pc' \notin {"tick", "broadcast", "add", "socket", "bind",
                                  "select", "recv", "handle"}]_vars

\* the daemon has exited after stop() interrupted a listen
C8_Witness ==
    /\ pc = "exited"
    /\ ~running
    /\ observed
    /\ last_epoch # -1

\* C9: no per-slot failure ends run(): the daemon never aborts, and after a failure
\* the next look at the clock enters the slot the clock is in if it is a new one.
C9_NeverAborts ==
    /\ [](pc # "crashed")
    /\ [][(failed /\ pc = "tick" /\ pc' # "tick") =>
             IF GetEpochSlot(now) # << last_epoch, last_slot >>
             THEN pc' = "broadcast" /\ << epoch', slot' >> = GetEpochSlot(now)
             ELSE pc' = "sleep"]_vars

\* a slot is entered after a failure in an earlier slot
C9_Witness ==
    /\ failed
    /\ pc = "broadcast"
    /\ last_epoch # -1
    /\ << epoch, slot >> # << last_epoch, last_slot >>

\* C10: a datagram shorter than 4 bytes, or declaring more signature bytes than it
\* holds, or whose descriptor is no valid UTF-8 JSON, or without a non-empty
\* node_id, changes no file, runs no callback, leaves known_peers alone and the
\* daemon goes back to the listen loop.
C10_IsMalformed(x) ==
    \/ Len(x) < 4
    \/ UnpackU32(SubSeq(x, 1, 4)) > Len(x) - 4
    \/ ~JsonLoads(SliceFrom(x, 4 + UnpackU32(SubSeq(x, 1, 4)))).ok
    \/ DescriptorOf(x).t # "dict"
    \/ NodeIdOf(x) \in {None, Str("")}
C10_MalformedDropped ==
    [][(pc = "handle" /\ C10_IsMalformed(data) /\ pc' # pc) =>
          (pc' = "lcheck" /\ UNCHANGED peerVars)]_vars

\* the 3-byte datagram 00 00 00 has been handled while a peer was known
C10_Witness ==
    /\ pc = "lcheck"
    /\ data = << 0, 0, 0 >>
    /\ known_peers # {}

\* what a reader finds in a file: the JSON value of its content
FileValue(f) == JsonLoads(f.c).value
CallbackFailed == cb_result \in {"nonzero", "timeout", "oserror"}
ListenPcs == {"socket", "bind", "lcheck", "select", "recv", "close", "remove"} \cup HandlerPcs
SentIn(e, s) == \E i \in 1..Len(sent) : sent[i] = << e, s >>
\* (epoch, slot) a is earlier than b
Earlier(a, b) == a[1] < b[1] \/ (a[1] = b[1] /\ a[2] < b[2])

\* C11: once both writes of _handle_peer_message have succeeded for a frame of a
\* new peer, <node_id>.json holds a JSON text of the received descriptor and, for a
\* non-empty signature, <node_id>.json.sig holds exactly its bytes.
C11_PeerFilesWritten ==
    pc \in {"h_cb", "h_track"} =>
        LET path == PathOf(NodeIdOf(data)) IN
            /\ files[path].st = "written"
            /\ JsonLoads(files[path].c).ok
            /\ FileValue(files[path]) = DescriptorOf(data)
            /\ Signature(data) # << >> => sigfiles[path] = Written(Signature(data))

\* the frame of n1 with a 3-byte signature has been processed
C11_Witness ==
    /\ pc = "lcheck"
    /\ data = Frame(Sig3, Str("n1"), 1)
    /\ Str("n1") \in known_peers
    /\ FileValue(files[PathOf(Str("n1"))]) = Dict(Str("n1"), 1)
    /\ sigfiles[PathOf(Str("n1"))] = Written(Sig3)

\* C12: a descriptor file that holds the descriptor of a frame received without a
\* signature has no .sig sibling.
C12_NoSignatureNoSigFile ==
    \A id \in PeerIds : \A d \in WellFormed :
        (/\ files[PathOf(id)].st = "written"
         /\ NodeIdOf(d) = id
         /\ FileValue(files[PathOf(id)]) = DescriptorOf(d)
         /\ Signature(d) = << >>)
            => sigfiles[PathOf(id)] = Absent

\* C13: no reader ever finds a peer file that is empty or partially written.
C13_AtomicWrites ==
    \A path \in Paths : files[path].st # "empty" /\ sigfiles[path].st # "empty"

\* the words of the configured command
C14_Words ==
    IF peer_callback = DefaultCallback THEN << "/usr/local/bin/apply-peers.sh", "add" >>
    ELSE IF peer_callback = PaddedCallback THEN << "hook", "-a" >>
    ELSE << >>

\* C14: the callback starts only when the descriptor file and, for a non-empty
\* signature, the signature file are complete; its argv is the words of
\* peer_callback followed by the path of that descriptor file and nothing else;
\* the node_id enters known_peers only in the step after the callback has ended.
C14_CallbackAfterWrite ==
    /\ [][callbacks' # callbacks =>
            LET id == NodeIdOf(data)
                path == PathOf(id)
            IN  /\ files[path].st = "written"
                /\ FileValue(files[path]) = DescriptorOf(data)
                /\ Signature(data) # << >> => sigfiles[path] = Written(Signature(data))
                /\ UNCHANGED << files, sigfiles, known_peers >>
                /\ id \notin known_peers
                /\ argv' = C14_Words \o << peers_dir \o "/" \o id.s \o ".json" >>
                /\ cb_result' # "none"]_vars
    /\ [][known_peers' # known_peers =>
            /\ pc = "h_track"
            /\ peer_callback # NoCallback => (cb_result # "none" /\ argv # << >>)
            /\ UNCHANGED callbacks]_vars

\* the callback for n1 has ended and n1 is not yet in known_peers
C14_Witness ==
    /\ pc = "h_track"
    /\ data = Frame(Sig3, Str("n1"), 1)
    /\ argv = << "/usr/local/bin/apply-peers.sh", "add",
                 "/var/lib/infrasim/peer-descriptors/n1.json" >>
    /\ Str("n1") \notin known_peers

\* C15: with max_peers >= 1, after a callback that failed the frame is processed to
\* its end: the descriptor file is there, the peer is in known_peers and the daemon
\* is back in its listen loop, still running.
C15_CallbackFailureNotFatal ==
    [][(max_peers >= 1 /\ pc = "h_track" /\ CallbackFailed /\ pc' # pc) =>
          /\ pc' = "lcheck"
          /\ running' = running
          /\ files'[PathOf(NodeIdOf(data))].st = "written"
          /\ NodeIdOf(data) \in known_peers']_vars

\* C16: a failure of open() or of a write for the descriptor or the signature file
\* ends the handling of the frame: no callback runs, known_peers is unchanged and
\* does not hold the node_id, so the same frame is classified as a new peer again.
C16_StoreErrorDropsSighting ==
    [][(\/ sigFails' # sigFails
        \/ (pc = "h_open" /\ pc' \notin {"h_open", "h_dump"})
        \/ (pc = "h_dump" /\ pc' \notin {"h_dump", "h_sig"})) =>
          /\ pc' = "lcheck"
          /\ UNCHANGED << callbacks, known_peers, cbVars >>
          /\ NodeIdOf(data) \notin known_peers'
          /\ Classify(data, OwnNodeId, known_peers') = "new"]_vars

\* the frame of n1 is handled as a new peer again after its signature file could
\* not be written
C16_Witness ==
    /\ pc = "h_open"
    /\ data = Frame(Sig3, Str("n1"), 1)
    /\ sigFails[Str("n1")] = 1
    /\ descWrites[Str("n1")] = 1
    /\ callbacks[Str("n1")] = 0

\* C17 as stated: in a slot whose address could not be added no descriptor has
\* been sent.
C17_SkippedSlotSendsNothing ==
    [][(pc = "add" /\ pc' = "post") => ~SentIn(epoch, slot)]_vars

\* C17 amended: when _add_address fails, _listen_for_peers returns at once: no
\* socket exists, no datagram is received, nothing changes but the log, and run()
\* records the slot and goes on; a socket is created and a datagram is received
\* only in a slot whose address was added.  The descriptor of the slot has been
\* sent before.
C17_AddFailureSkipsListen ==
    /\ [][(pc = "add" /\ pc' = "post") =>
            /\ sock' = "none"
            /\ current_socket' # "sock"
            /\ UNCHANGED << nframes, peerVars, iface, sent, data >>]_vars
    /\ [][(pc = "post" /\ pc' # pc) =>
            (pc' = "sleep" /\ last_epoch' = epoch /\ last_slot' = slot)]_vars
    /\ [][(nframes' # nframes \/ (sock' = "open" /\ sock # "open")) =>
            (pending = addr /\ addr \in iface)]_vars

\* the address of slot (0, 0) could not be added, nothing was received, and the
\* daemon has entered slot (0, 1)
C17_Witness ==
    /\ pc = "broadcast"
    /\ << last_epoch, last_slot >> = << 0, 0 >>
    /\ << epoch, slot >> # << 0, 0 >>
    /\ sent = << << 0, 0 >> >>
    /\ failed
    /\ nframes = 0
    /\ iface = {}

\* C18: a slot is entered with the endpoint of the clock's (epoch, slot); the
\* descriptor is sent only before _listen_for_peers is called, when no socket of
\* the slot exists; _listen_for_peers starts only after _broadcast_descriptor; and
\* while recvfrom is attempted or a datagram is handled the address of the slot is
\* on the interface and the socket has been bound to it.
C18_StrictOrder ==
    /\ [](pc \in {"recv"} \cup HandlerPcs =>
            (addr \in iface /\ pending = addr /\ current_socket = "sock"))
    /\ [][(pc' = "broadcast" /\ pc # "broadcast") =>
            (pc = "tick" /\ << epoch', slot' >> = GetEpochSlot(now))]_vars
    /\ [][sent' # sent =>
            (pc = "broadcast" /\ pc' = "add" /\ sock = "none" /\ current_socket # "sock"
             /\ sent' = Append(sent, << epoch, slot >>))]_vars
    /\ [][(pc' = "add" /\ pc # "add") => pc = "broadcast"]_vars
    /\ [][(pc' \in ListenPcs /\ pc \notin ListenPcs) => (pc = "add" /\ pc' = "socket")]_vars

\* a datagram is being handled in slot (0, 0) after the descriptor was sent
C18_Witness ==
    /\ pc = "handle"
    /\ data = Frame(NoSig, Str("n2"), 1)
    /\ sent = << << 0, 0 >> >>
    /\ addr \in iface

\* C19: a slot is entered only when the clock's (epoch, slot) differs from the last
\* one entered, and it is later than it; the descriptor is sent at most once per
\* (epoch, slot): the slots of the descriptors sent are strictly increasing.
C19_OncePerSlot ==
    /\ [](\A i, j \in 1..Len(sent) : i < j => Earlier(sent[i], sent[j]))
    /\ [][(pc = "tick" /\ pc' = "broadcast") =>
            /\ << epoch', slot' >> # << last_epoch, last_slot >>
            /\ Earlier(<< last_epoch, last_slot >>, << epoch', slot' >>)]_vars
    /\ [][(pc = "tick" /\ pc' # pc /\ GetEpochSlot(now) = << last_epoch, last_slot >>) =>
            pc' = "sleep"]_vars

\* two slots have been run, and the clock is read again inside the second one
C19_Witness ==
    /\ pc = "tick"
    /\ sent = << << 0, 0 >>, << 0, 1 >> >>
    /\ GetEpochSlot(now) = << last_epoch, last_slot >>

\* the slots of the first epoch
EpochSlots == { << 0, s >> : s \in 0..(slots_per_epoch - 1) }

\* C20: when both daemons have run every slot of the first epoch and have handled
\* every datagram queued in their sockets, each has written the other's descriptor
\* file, has called its callback with that path and knows the other.
C20_MutualDiscovery ==
    (\A p \in Nodes : /\ daemons[p].entered = EpochSlots
                      /\ ~daemons[p].dropped
                      /\ daemons[p].last = << 0, slots_per_epoch - 1 >>
                      /\ daemons[p].pc = "tick")
        => \A p \in Nodes :
              LET id == NodeId(Other(p)) IN
                  /\ id \in daemons[p].known_peers
                  /\ PathText(id) \in daemons[p].files
                  /\ CallbackArgv(DefaultCallback, PathText(id)) \in daemons[p].calls

\* the frame in `data` with its signature replaced, and without one
C21_Resigned == { Encode(s, DescriptorJson(data)) : s \in {NoSig, Sig1, Sig3} }
C21_Unsigned == Encode(NoSig, DescriptorJson(data))

\* What a step of _handle_peer_message does to the decision, to known_peers, to
\* the descriptor file and to the callback is what it does for the same descriptor
\* without a signature; `excused` lets a failed write of the signature file end
\* the handling.
C21_Same(excused) ==
    LET u == C21_Unsigned
        id == NodeIdOf(u)
        grown == known_peers \cup {id}
    IN  (pc \in HandlerPcs /\ pc' # pc /\ ~TooShort(data) /\ ~Truncated(data)) =>
            CASE pc = "handle" ->
                    /\ \A m \in C21_Resigned :
                          Classify(m, OwnNodeId, known_peers) = Classify(data, OwnNodeId, known_peers)
                    /\ (pc' = "h_open") = (Classify(u, OwnNodeId, known_peers) = "new")
                    /\ UNCHANGED << peerVars, cbVars >>
              [] pc = "h_open" ->
                    /\ files' \in {files, [files EXCEPT ![PathOf(id)] = Empty]}
                    /\ UNCHANGED << known_peers, callbacks, cbVars >>
              [] pc = "h_dump" ->
                    /\ files' \in {files, [files EXCEPT ![PathOf(id)] =
                                                       Written(JsonDumpIndent(DescriptorOf(u)))]}
                    /\ UNCHANGED << known_peers, callbacks, cbVars >>
              [] pc = "h_sig" ->
                    /\ pc' = "h_cb" \/ (excused /\ sigFails' # sigFails)
                    /\ UNCHANGED << known_peers, files, descWrites, callbacks, evictions, cbVars >>
              [] pc = "h_cb" ->
                    /\ pc' = "h_track"
                    /\ IF peer_callback # NoCallback
                       THEN /\ argv' = CallbackArgv(peer_callback, PathText(id))
                            /\ callbacks' = [callbacks EXCEPT ![id] = @ + 1]
                       ELSE UNCHANGED << callbacks, cbVars >>
                    /\ UNCHANGED << known_peers, files >>
              [] pc = "h_track" ->
                    /\ IF Cardinality(grown) > max_peers
                       THEN \E x \in grown : known_peers' = grown \ {x}
                       ELSE known_peers' = grown
                    /\ UNCHANGED << files, callbacks >>

\* C21 as stated: every step of the handling of a frame with a descriptor is the
\* step taken for the same descriptor with any other or no signature (decision,
\* known_peers, descriptor file, callback); only the signature file differs.
C21_SignatureBlind == [][C21_Same(FALSE)]_vars

\* C21 amended: the same, unless writing the signature file fails, which happens
\* only for a frame that carries a signature and ends the handling of the frame
\* before the callback and before known_peers.
C21_SignatureBlindUnlessSigWriteFails == [][C21_Same(TRUE)]_vars

\* the frame of n3 with a 1-byte signature has been stored and the callback has
\* been run with the path of n3's descriptor file
C21_Witness ==
    /\ pc = "h_track"
    /\ data = Frame(Sig1, Str("n3"), 1)
    /\ argv = CallbackArgv(peer_callback, PathText(Str("n3")))
    /\ files[PathOf(Str("n3"))] = Written(JsonDumpIndent(Dict(Str("n3"), 1)))
    /\ sigfiles[PathOf(Str("n3"))] = Written(Sig1)

\* C22: a frame gets past the checks of _handle_peer_message (to be persisted,
\* passed to the callback and added to known_peers) only if it carries a
\* signature; no key verifies an empty signature.
C22_AcceptedOnlyIfSigned ==
    pc \in {"h_open", "h_dump", "h_sig", "h_cb", "h_track"} => Signature(data) # NoSig

\* C27: a daemon that found no local descriptor file at start-up never puts a
\* datagram on the wire, in any slot; it still enters the slots and handles what
\* it receives (see the witness).
C27_NoDescriptorNeverSends ==
    node_descriptor = EmptyDescriptor => sent = << >>

\* without a local descriptor the daemon has learned n1 (file written, callback
\* run) in one slot and is bound in a later slot, having sent nothing
C27_Witness ==
    /\ node_descriptor = EmptyDescriptor
    /\ sent = << >>
    /\ known_peers = {Str("n1")}
    /\ files[PathOf(Str("n1"))].st = "written"
    /\ callbacks[Str("n1")] = 1
    /\ << epoch, slot >> # << 0, 0 >>
    /\ pc = "lcheck"
    /\ current_socket = "sock"
    /\ sock = "open"

\* C23: for every (mesh_secret, epoch, slot) the daemon and the client derive the
\* same address text and the same port, the port is 51821 + slot, and the address
\* is the text of a link-local address.
C23_SameEndpoint ==
    (pure.op = "derive" /\ pure.done) =>
        /\ pure.out.daemon = pure.out.client
        /\ pure.out.daemon[2] = 51821 + pure.in[3]
        /\ SubSeq(IPv6Packed(pure.out.daemon[1]), 1, 8) = << 254, 128, 0, 0, 0, 0, 0, 0 >>

\* both have derived the endpoint of slot 2 of epoch 1 under the daemon's secret
C23_Witness ==
    /\ pure.op = "derive"
    /\ pure.done
    /\ pure.in = << mesh_secret, 1, 2 >>
    /\ pure.out.client[2] = 51823
    /\ Len(pure.out.client[1]) = 6

\* x & y of two bytes, bit by bit
RECURSIVE BitAnd(_, _)
BitAnd(x, y) ==
    IF x = 0 \/ y = 0 THEN 0
    ELSE (x % 2) * (y % 2) + 2 * BitAnd(x \div 2, y \div 2)

\* C24: the address made of a 32-byte digest starts with fe 80 and six zero bytes
\* (first 10 bits 1111111010), its byte 8 is mac[0] AND 0xFD with bit 0x02 zero,
\* and its bytes 9..15 are mac[1..7] (indices from 0).
C24_LinkLocalAddress ==
    (pure.op = "address" /\ pure.done) =>
        /\ Len(pure.out) = 16
        /\ SubSeq(pure.out, 1, 8) = << 254, 128, 0, 0, 0, 0, 0, 0 >>
        /\ pure.out[1] * 4 + pure.out[2] \div 64 = 1018
        /\ pure.out[9] = BitAnd(pure.in[1], 253)
        /\ (pure.out[9] \div 2) % 2 = 0
        /\ \A i \in 10..16 : pure.out[i] = pure.in[i - 8]

\* the address of a digest whose first byte has every bit set
C24_Witness ==
    /\ pure.op = "address"
    /\ pure.done
    /\ pure.in[1] = 255
    /\ pure.in[2] = 6
    /\ pure.out[9] = 253
    /\ pure.out[10] = 6

\* C25: the frame built of signature s and descriptor bytes b, by the daemon and
\* by the client, is parsed by the daemon into exactly s and b and is not dropped
\* as short or truncated.
C25_CodecRoundTrip ==
    (pure.op = "codec" /\ pure.done) =>
        /\ pure.out.daemon = [dropped |-> "", signature |-> pure.in[1], descriptor_json |-> pure.in[2]]
        /\ pure.out.client = [dropped |-> "", signature |-> pure.in[1], descriptor_json |-> pure.in[2]]

\* a 300-byte signature and a descriptor that looks like a length prefix
C25_Witness ==
    /\ pure.op = "codec"
    /\ pure.done
    /\ pure.in = << LongSig, << 0, 0, 0, 1 >> >>
    /\ Len(pure.out.daemon.signature) = 300

\* C26: for every time t >= 0 and positive epoch_seconds and slots_per_epoch the
\* oracle gives 0 <= slot < slots_per_epoch and epoch = floor(t / epoch_seconds),
\* and its (epoch, slot) at a later time is not earlier.
C26_OracleInRange ==
    (pure.op = "oracle" /\ pure.done) =>
        /\ 0 <= pure.out[1][2]
        /\ pure.out[1][2] < pure.in[4]
        /\ pure.out[1][1] = pure.in[1][1] \div (pure.in[1][2] * pure.in[3])
        /\ ~Earlier(pure.out[2], pure.out[1])

\* C28: the list discover returns and main() prints holds no two descriptors
\* with the same node_id (descriptors without a node_id are not counted).
C28_PeersUniqueByNodeId ==
    (client.command = "discover" /\ client.pc = "exit" /\ client.exit = 0) =>
        \A i, j \in 1..Len(client.printed) :
            (i # j /\ client.printed[i].node_id # None)
                => client.printed[i].node_id # client.printed[j].node_id

\* C29: when broadcast or discover is over, remove_address has been called for
\* every address and interface add_address succeeded for, and never before or
\* without it; broadcast has sent at most one datagram.
C29_ClientAlwaysUnbinds ==
    /\ Len(client.sends) <= 1
    /\ Len(client.adds) <= 1
    /\ client.pc \in {"d_print", "exit"} => client.removes = client.adds
    /\ client.pc \notin {"d_print", "exit"} => client.removes = << >>
    /\ \A i \in 1..Len(client.adds) : client.adds[i] = << interface, client.addr >>

\* broadcast found no descriptor file after it had added the address, has sent
\* nothing and has called remove_address for the address
C29_Witness ==
    /\ client.command = "broadcast"
    /\ client.pc = "exit"
    /\ client.returned = "descriptor not found"
    /\ client.sends = << >>
    /\ client.adds = << << interface, derive_rendezvous_address(mesh_secret, 0, 1) >> >>
    /\ client.removes = client.adds
    /\ client.iface = {}

\* C30: the client exits with status 0 only if the command did its work: not
\* when a failure was reported (address not added, descriptor not found,
\* mesh_secret unset).
C30_ExitZeroOnlyOnSuccess ==
    (client.pc = "exit" /\ client.exit = 0) => client.returned = ""

\* C31: entry +i of the upcoming slots printed by status is the slot key reached
\* by advancing i slots from the current one:
\* (epoch + (slot + i) div slots_per_epoch, (slot + i) mod slots_per_epoch).
C31_UpcomingSlotsInOrder ==
    (client.command = "status" /\ client.pc = "exit" /\ client.exit = 0) =>
        \A i \in 1..3 :
            /\ client.printed[i + 1][1] = client.epoch + (client.slot + i) \div slots_per_epoch
            /\ client.printed[i + 1][2] = (client.slot + i) % slots_per_epoch

\* C32: a restarted daemon knows no peer whatever peers_dir holds: a node_id is in
\* known_peers only after its descriptor was written in this run, and the first
\* valid frame of a peer whose file is left from an earlier run is not dropped
\* but goes on to be persisted (and, the writes succeeding, to the callback).
C32_RestartForgetsPeers ==
    /\ [](\A id \in known_peers : descWrites[id] >= 1)
    /\ [][(/\ pc = "handle"
           /\ pc' # pc
           /\ Classify(data, OwnNodeId, {}) = "new"
           /\ descWrites[NodeIdOf(data)] = 0) => pc' = "h_open"]_vars

\* the descriptor of n1 was in peers_dir at the start; the frame of n1 has been
\* written again, the callback has run again and n1 is known
C32_Witness ==
    /\ pc = "lcheck"
    /\ data = Frame(Sig3, Str("n1"), 1)
    /\ descWrites[Str("n1")] = 1
    /\ callbacks[Str("n1")] = 1
    /\ Str("n1") \in known_peers
    /\ files[PathOf(Str("n2"))].st = "written"
    /\ descWrites[Str("n2")] = 0


\* C33: a configuration whose mesh_secret is missing or empty ends the daemon
\* with a status other than 0 before the daemon is constructed: no slot is
\* entered and the state of the daemon (addresses, socket) is untouched
C33_Empty == boot.file.mesh_secret = "missing" \/ ConfigValue(boot.file.mesh_secret) = << >>
C33_NoSecretNoDaemon ==
    (boot.pc # "off" /\ C33_Empty) =>
        /\ boot.pc \in {"load", "main", "exit"}
        /\ ~boot.constructed
        /\ boot.entered = << >>
        /\ boot.pc = "exit" => boot.exit = 1
        /\ iface = {} /\ sock = "none" /\ current_socket = "None"
C33_Witness ==
    /\ boot.pc = "exit" /\ boot.exit = 1 /\ boot.raised = ""
    /\ boot.file.mesh_secret = << "\"", "\"" >>
    /\ ~boot.constructed


\* C36: a configuration whose epoch_seconds, slots_per_epoch or
\* slot_duration_ms cannot be parsed, is zero or negative, or whose
\* slot_duration_ms is longer than one slot, ends the daemon at start-up:
\* run() enters no slot and nothing is raised inside its loop
C36_Setting(k) ==
    IF boot.file[k] = "missing" THEN [error |-> "", value |-> DefaultConfig[k]]
    ELSE IntOf(ConfigValue(boot.file[k]))
C36_Invalid ==
    \/ \E k \in IntKeys : C36_Setting(k).error # "" \/ C36_Setting(k).value <= 0
    \/ C36_Setting("slot_duration_ms").value * C36_Setting("slots_per_epoch").value
         > C36_Setting("epoch_seconds").value * 1000
C36_InvalidConfigFatal ==
    (boot.pc # "off" /\ C36_Invalid) =>
        /\ boot.entered = << >>
        /\ boot.raised \notin {"ZeroDivisionError", "struct.error"}


\* C34: with the privilege to change addresses, adding an address that is
\* present and removing one that is absent report no failure and leave the
\* addresses as they were, and an add followed by the remove of the same
\* address gives back the addresses there were before the add
C34_BinderIdempotent ==
    (pure.op = "binder" /\ pure.done /\ pure.in[4]) =>
        LET addrs == pure.in[2]
            a == pure.in[3]
        IN  /\ a \in addrs => pure.out[1].returned = "True" /\ pure.out[1].addrs = addrs
            /\ a \notin addrs => pure.out[2].returned # "False" /\ pure.out[2].addrs = addrs
            /\ pure.out[3].addrs = addrs


\* C35: with max_peers >= 1, the limit on known_peers evicts the peer that was inserted longest
\* ago: the peer that has just been inserted stays, and when one peer was
\* known before the insertion, that peer is the one removed
C35_EvictionIsFifo ==
    [][(max_peers >= 1 /\ pc = "h_track" /\ \E x \in DOMAIN evictions : evictions'[x] > evictions[x]) =>
          /\ NodeIdOf(data) \in known_peers'
          /\ Cardinality(known_peers) = 1 => known_peers \cap known_peers' = {}]_vars

\* C40: with max_peers >= 1, when the frame of a new peer has been processed
\* to its end the peer is in known_peers, evicted entry or not, and the same
\* frame received again is dropped as known
C40_NewPeerIsKnown ==
    [][(max_peers >= 1 /\ pc = "h_track" /\ pc' # pc) =>
          /\ NodeIdOf(data) \in known_peers'
          /\ Classify(data, OwnNodeId, known_peers') = "known"]_vars


\* C37: a running daemon skips no slot: the slot that run() enters is the
\* one that follows the slot it entered before, however long the listening
\* and the callbacks of that slot have taken
C37_Following(e, s) == IF s + 1 < slots_per_epoch THEN << e, s + 1 >> ELSE << e + 1, 0 >>
C37_NoSlotSkipped ==
    [][(pc = "tick" /\ pc' = "broadcast" /\ last_epoch # -1) =>
          << epoch', slot' >> = C37_Following(last_epoch, last_slot)]_vars


\* C38: between two slots no socket of the daemon is open: the socket of the
\* listening is closed or unreferenced when _listen_for_peers has returned,
\* and current_socket is None, or, in a daemon that stop() interrupted while
\* it listened, refers to the socket that stop() closed
C38_BetweenSlots == {"sleep", "loop", "tick", "broadcast"}
C39_KnownPeersPersisted ==
    /\ [](\A id \in known_peers : descWrites[id] >= 1 /\ files[PathOf(id)].st # "absent")
    /\ [][\A id \in PeerIds :
            (id \in known_peers /\ files'[PathOf(id)] # files[PathOf(id)]) =>
                (pc \in {"h_open", "h_dump"} /\ NodeIdOf(data) = id)]_vars

=============================================================================
